---- MODULE Spec2Model ----
(***************************************************************************)
(* The network session layer of video_conference.py: one participant      *)
(* (a VideoConference object) that can host a meeting (listening socket,  *)
(* accept loop, one handler thread per accepted connection, broadcast     *)
(* from the UI thread, stop) or join one (connect with retry).  The       *)
(* remote peers and the network are the environment.                      *)
(*                                                                         *)
(* Threads are modelled by program counters; every step is one action.    *)
(* The object has no lock, so any two steps of different threads may      *)
(* interleave.  Timestamps in messages are left out (they come from the   *)
(* clock and no behaviour reads them).                                     *)
(***************************************************************************)
EXTENDS Integers, Sequences, FiniteSets, TLC

\* ------------------------------------------------------------------ bounds
MaxConns == 2       \* connections the listening socket hands out in all
MaxChats == 1       \* chat messages the local user submits
MaxPeerMsgs == 1    \* frames the remote peers send to the host in all
MaxJoins == 2       \* join_meeting calls
MaxMsgs == 2        \* messages written to the connection of the framing model
MaxTransfers == 2   \* files the local user sends
MaxSessions == 2    \* create_meeting calls of the model of sessions in a row
MaxSesConns == 2    \* connections accepted in that model in all
MaxClientSockets == 3  \* socket objects _connect_to_server makes in the model of client sessions in a row
MaxClientFrames == 1   \* frames the host sends to the client in that model
MaxRxMsgs == 3      \* file messages handed to _handle_file_data in all

\* ------------------------------------------------------- program constants
retry_count == 3
chunk_size == 8192  \* self.chunk_size
recv_limit == 8192  \* the most one recv call of the payload loop asks for

Conns == 1..MaxConns
Transfers == 1..MaxTransfers
Sessions == 1..MaxSessions
ClientSockets == 1..MaxClientSockets
Remote == MaxTransfers + 1     \* the id of a transfer a peer started
FileIds == Transfers \cup {Remote}
None == 0           \* Python's None where a connection is expected

\* ---------------------------------------------------------------- messages
\* As welcome_data, with another content.
welcome_data_wrong == [type |-> "system", content |-> "connected", sender |-> ""]

\* The dictionaries the code pickles; every record carries the same fields,
\* sender being "" where the dictionary has no 'sender' key.
welcome_data == [type |-> "system", content |-> "connection_confirmed", sender |-> ""]

chat_data(who) == [type |-> "chat", content |-> "hi", sender |-> who]

\* len(pickle.dumps(data)): the byte length of the serialized dictionary, here
\* a length that differs per message shape.
serialized_len(data) ==
    (IF data.type = "system" THEN 40 ELSE 60) + (IF data.sender = "" THEN 0 ELSE 10)

\* As size_chunk, advertising one byte less than the payload has.
size_chunk_short(data) == <<"size", serialized_len(data) - 1>>

\* struct.pack('!I', n) and the payload, as the two chunks handed to send().
size_chunk(data) == <<"size", serialized_len(data)>>

data_chunk(data) == <<"data", data>>

VARIABLES
    is_host,        \* self.is_host
    is_connected,   \* self.is_connected
    server_socket,  \* self.server_socket: "none", "listening", "closed"
    clients,        \* self.clients: a list of connections
    sock,           \* host-side socket object of a connection: "unborn", "open", "closed"
    peer_gone,      \* the remote end of the connection has closed
    wire,           \* chunks the host wrote to the connection, in order
    inbox,          \* frames the peer sent that the host has not read yet
    close_calls,    \* how often close() was called on the connection's socket
    acc_pc,         \* accept_connections thread: position
    acc_conn,       \* accept_connections thread: client_socket local
    h_pc,           \* handle_client thread of each connection: position
    ui_pc,          \* UI thread: position inside the running slot
    bc_snap,        \* broadcast_data: the copy self.clients[:]
    bc_i,           \* broadcast_data: index into the copy (1-based)
    bc_sent,        \* broadcast_data: connections both sends succeeded on
    bc_failed,      \* broadcast_data: connections a send raised on
    bc_removed,     \* broadcast_data: connections it removed from self.clients
    bc_stale,       \* broadcast_data: connections it called send on after their close()
    stop_i,         \* stop_server: index of the list iterator over self.clients
    chat_display,   \* lines appended to the chat display, counted per sender label
    chats,          \* chat messages the local user has submitted
    peer_msgs,      \* frames the peers have sent
    client_socket,  \* self.client_socket: "none", "unconnected", "connected", "closed"
    j_pc,           \* join_meeting: position
    attempt,        \* join_meeting: the loop variable
    attempts,       \* what each attempt of the running join_meeting met, in order
    sleeps,         \* time.sleep(1) calls of the running join_meeting
    errors_emitted, \* connection_error signals of the running join_meeting
    joins,          \* join_meeting calls so far
    client_chats,   \* chats submitted while not hosting
    rx_started,     \* a client receive thread has been started
    server_gone,    \* the host has closed the connection self.client_socket is on
    h_exit,         \* handle_client thread in its finally clause: the loop was left on
                    \* a zero-length read of the length prefix ("eof") or otherwise
    unpickled,      \* frames a handler has passed to pickle.loads
    bind_calls,     \* bind() calls of the last create_meeting call
    create_warnings, \* '创建会议失败' warnings of the last create_meeting call
    tx_sent,        \* messages send_to_client has written to the connection, in order
    tx_closed,      \* the sending end has closed the connection
    stream,         \* bytes written to the connection and not yet read, in order
    rx_pc,          \* receive_from_client on the other end: position
    data_size,      \* receive_from_client: data_size local
    received_data,  \* receive_from_client: received_data local
    rx_out,         \* messages the receive_from_client calls have returned, in order
    pending_files,  \* self.pending_files: the entry of each transfer id that has one
    file_size,      \* file_info['info']['size'] of each transfer
    t_pc,           \* _file_transfer_task thread of each transfer: position
    sent_size,      \* _file_transfer_task: sent_size local
    emitted,        \* messages each transfer has handed to the connection, in order
    transfer_log,   \* '文件传输失败' log entries, counted per transfer id
    prepare_log,    \* '获取文件信息失败' log entries
    progress,       \* values file_progress_updated was emitted with, per transfer, in order
    rx_count,       \* messages _handle_file_data has been called with
    rx_last,        \* the message of the last _handle_file_data call
    remote_pc,      \* the file transfer a peer sends to this participant: next message
    remote_corrupt, \* a chunk of that transfer was altered in transit
    file_failures,  \* '处理文件数据失败' log entries
    saves,          \* QFileDialog.getSaveFileName dialogs shown
    ses_is_host,    \* sessions in a row: self.is_host
    ses_socket,     \* sessions in a row: the socket object self.server_socket is (0: None)
    ses_listening,  \* sessions in a row: the socket objects that listen
    ses_clients,    \* sessions in a row: self.clients
    ses_pc,         \* sessions in a row: each accept_connections thread's position
    ses_conn,       \* sessions in a row: each accept thread's client_socket local
    ses_ui,         \* sessions in a row: UI thread's position in stop_server
    ses_conns,      \* sessions in a row: connections accepted in all
    ses_accepts,    \* which accept thread got a connection from which listening socket
    ses_appends,    \* which accept thread appended to the list of which session
    cs_is_connected, \* client sessions in a row: self.is_connected
    cs_socket,      \* client sessions in a row: the socket object self.client_socket is (0: None)
    cs_open,        \* client sessions in a row: socket objects made and not closed
    cs_gone,        \* client sessions in a row: socket objects whose host end has closed
    cs_ui,          \* client sessions in a row: UI thread's position in disconnect_from_meeting
    cs_pc,          \* receive_data thread started with each socket object: position
    cs_reads,       \* receive_data thread: the socket object its recv call is on
    cs_frames,      \* frames the host has sent to the client in all
    cs_closed,      \* which receive thread's disconnect closed which socket object
    cs_marked       \* which receive thread's disconnect cleared is_connected of which session

hostVars == <<is_host, is_connected, server_socket, clients, sock, peer_gone, wire,
              inbox, close_calls, acc_pc, acc_conn, h_pc, ui_pc, bc_snap, bc_i,
              bc_sent, bc_failed, bc_removed, bc_stale, stop_i, chat_display,
              chats, peer_msgs>>

joinVars == <<client_socket, j_pc, attempt, attempts, sleeps, errors_emitted, joins,
              client_chats, rx_started, server_gone>>

moreVars == <<h_exit, unpickled, bind_calls, create_warnings>>

codecVars == <<tx_sent, tx_closed, stream, rx_pc, data_size, received_data, rx_out>>

fileVars == <<pending_files, file_size, t_pc, sent_size, emitted, transfer_log,
              prepare_log, progress>>

recvVars == <<rx_count, rx_last, remote_pc, remote_corrupt, file_failures, saves>>

sesVars == <<ses_is_host, ses_socket, ses_listening, ses_clients, ses_pc, ses_conn,
             ses_ui, ses_conns, ses_accepts, ses_appends>>

csVars == <<cs_is_connected, cs_socket, cs_open, cs_gone, cs_ui, cs_pc, cs_reads,
            cs_frames, cs_closed, cs_marked>>

sideVars == <<codecVars, fileVars, recvVars, sesVars, csVars>>

vars == <<hostVars, joinVars, moreVars, sideVars>>

\* _init_attributes, before any button is pressed.
Init ==
    /\ is_host = FALSE
    /\ is_connected = FALSE
    /\ server_socket = "none"
    /\ clients = <<>>
    /\ sock = [c \in Conns |-> "unborn"]
    /\ peer_gone = [c \in Conns |-> FALSE]
    /\ wire = [c \in Conns |-> <<>>]
    /\ inbox = [c \in Conns |-> <<>>]
    /\ close_calls = [c \in Conns |-> 0]
    /\ acc_pc = "unstarted"
    /\ acc_conn = None
    /\ h_pc = [c \in Conns |-> "idle"]
    /\ ui_pc = "idle"
    /\ bc_snap = <<>>
    /\ bc_i = 0
    /\ bc_sent = {}
    /\ bc_failed = {}
    /\ bc_removed = {}
    /\ bc_stale = {}
    /\ stop_i = 0
    /\ chat_display = [me |-> 0, peer |-> 0, system |-> 0]
    /\ chats = 0
    /\ peer_msgs = 0
    /\ client_socket = "none"
    /\ j_pc = "idle"
    /\ attempt = 0
    /\ attempts = <<>>
    /\ sleeps = 0
    /\ errors_emitted = 0
    /\ joins = 0
    /\ client_chats = 0
    /\ rx_started = FALSE
    /\ server_gone = FALSE
    /\ h_exit = [c \in Conns |-> "none"]
    /\ unpickled = {}
    /\ bind_calls = 0
    /\ create_warnings = 0
    /\ tx_sent = <<>>
    /\ tx_closed = FALSE
    /\ stream = <<>>
    /\ rx_pc = "idle"
    /\ data_size = 0
    /\ received_data = <<>>
    /\ rx_out = <<>>
    /\ pending_files = <<>>
    /\ file_size = [t \in Transfers |-> 0]
    /\ t_pc = [t \in Transfers |-> "unstarted"]
    /\ sent_size = [t \in Transfers |-> 0]
    /\ emitted = [t \in Transfers |-> <<>>]
    /\ transfer_log = [t \in Transfers |-> 0]
    /\ prepare_log = 0
    /\ progress = [t \in FileIds |-> <<>>]
    /\ rx_count = 0
    /\ rx_last = [type |-> "none"]
    /\ remote_pc = "file_info"
    /\ remote_corrupt = FALSE
    /\ file_failures = 0
    /\ saves = 0
    /\ ses_is_host = FALSE
    /\ ses_socket = 0
    /\ ses_listening = {}
    /\ ses_clients = <<>>
    /\ ses_pc = [k \in Sessions |-> "unstarted"]
    /\ ses_conn = [k \in Sessions |-> 0]
    /\ ses_ui = "idle"
    /\ ses_conns = 0
    /\ ses_accepts = {}
    /\ ses_appends = {}
    /\ cs_is_connected = FALSE
    /\ cs_socket = 0
    /\ cs_open = {}
    /\ cs_gone = {}
    /\ cs_ui = "idle"
    /\ cs_pc = [k \in ClientSockets |-> "unstarted"]
    /\ cs_reads = [k \in ClientSockets |-> 0]
    /\ cs_frames = 0
    /\ cs_closed = {}
    /\ cs_marked = {}


\* ------------------------------------------------------------------ helpers
\* `x in self.clients`
InList(c, l) == \E i \in 1..Len(l) : l[i] = c

\* As ListRemove, taking out the first element whatever it is.
ListRemoveFirst(l, c) == Tail(l)

\* list.remove(x): drops the first occurrence (the caller has checked InList).
ListRemove(l, c) ==
    LET i == CHOOSE k \in 1..Len(l) : l[k] = c /\ \A m \in 1..(k - 1) : l[m] # c
    IN  SubSeq(l, 1, i - 1) \o SubSeq(l, i + 1, Len(l))

\* socket.close() on a connection.  The connection is over for both ends: what
\* the peer had sent and the host had not read is dropped, and whether the peer
\* has closed is read by nobody any more.
Close(c) ==
    /\ sock' = [sock EXCEPT ![c] = "closed"]
    /\ close_calls' = [close_calls EXCEPT ![c] = @ + 1]
    /\ inbox' = [inbox EXCEPT ![c] = <<>>]
    /\ peer_gone' = [peer_gone EXCEPT ![c] = TRUE]

NoClose == UNCHANGED <<sock, close_calls, inbox, peer_gone>>

\* What the pair client.send(size); client.send(serialized_data) can do on a
\* connection: on a socket object already closed the first send raises; once the
\* peer is gone either send may raise or still be buffered; otherwise both
\* succeed.  "fail0": the first send raised, "fail1": the second did.
SendOutcomes(c) ==
    IF sock[c] # "open" THEN {"fail0"}
    ELSE IF peer_gone[c] THEN {"ok", "fail0", "fail1"}
    ELSE {"ok"}

\* The connection's byte stream after the pair of sends ended as o.
Written(c, data, o) ==
    IF o = "ok" THEN [wire EXCEPT ![c] = @ \o <<size_chunk(data), data_chunk(data)>>]
    ELSE IF o = "fail1" THEN [wire EXCEPT ![c] = Append(@, size_chunk(data))]
    ELSE wire

\* ------------------------------------------------------- create_meeting (UI)
\* As create_next_acc_pc, starting the accept thread whatever bind did.
create_next_acc_pc_always(bound) == "loop"

\* The accept thread after create_meeting: server_thread.start() stands in the
\* try block after bind and listen, so a raise of either skips it.
create_next_acc_pc(bound) == IF bound THEN "loop" ELSE "unstarted"

\* The create button while neither hosting nor connected.  The socket object is
\* made and assigned first; bind and listen succeed (the flags are set, the list
\* is emptied, the accept thread is started) or one of them raises (the port is
\* taken): the except clause logs, shows the warning box and returns.  One
\* hosting session is followed per behaviour.
create_meeting ==
    /\ ui_pc = "idle"
    /\ j_pc \in {"idle", "failed"}
    /\ ~is_host /\ ~is_connected
    /\ acc_pc = "unstarted"
    /\ \E bound \in BOOLEAN :
        /\ server_socket' = IF bound THEN "listening" ELSE "unbound"
        /\ is_host' = IF bound THEN TRUE ELSE is_host
        /\ is_connected' = IF bound THEN TRUE ELSE is_connected
        /\ clients' = IF bound THEN <<>> ELSE clients
        /\ acc_pc' = create_next_acc_pc(bound)
        /\ bind_calls' = 1
        /\ create_warnings' = IF bound THEN 0 ELSE 1
    /\ UNCHANGED <<h_exit, unpickled>>
    /\ UNCHANGED <<sock, peer_gone, wire, inbox, close_calls, acc_conn, h_pc, ui_pc,
                   bc_snap, bc_i, bc_sent, bc_failed, bc_removed, bc_stale, stop_i,
                   chat_display, chats, peer_msgs>>
    /\ UNCHANGED joinVars
    /\ UNCHANGED sideVars

\* --------------------------------------------------- accept_connections
\* The next connection number the listening socket hands out.
NextConn == CHOOSE c \in Conns : sock[c] = "unborn" /\ \A d \in 1..(c - 1) : sock[d] # "unborn"

\* `while self.is_host:` is false: the thread ends.  (While self.is_host is true
\* and the listening socket is closed, accept() raises, the outer except clause
\* logs and the loop comes back here: no change of state.)
AcceptEnds ==
    /\ acc_pc = "loop"
    /\ ~is_host
    /\ acc_pc' = "done"
    /\ UNCHANGED <<is_host, is_connected, server_socket, clients, sock, peer_gone,
                   wire, inbox, close_calls, acc_conn, h_pc, ui_pc, bc_snap, bc_i,
                   bc_sent, bc_failed, bc_removed, bc_stale, stop_i, chat_display,
                   chats, peer_msgs>>
    /\ UNCHANGED joinVars
    /\ UNCHANGED moreVars
    /\ UNCHANGED sideVars

\* As confirm_next_pc, registering the connection whatever the sends did.
confirm_next_pc_registers(o) == "append"

\* Where the accept thread goes after the two handshake sends: on to
\* self.clients.append, or through the inner except clause back to the loop.
confirm_next_pc(o) == IF o = "ok" THEN "append" ELSE "loop"

\* `while self.is_host:` is true, self.server_socket.accept() returns a new
\* connection, and client_socket.send(size); client_socket.send(serialized_data)
\* of welcome_data follow.  No other thread has seen the socket yet, so the three
\* are one step; a send raises when the peer has gone in between ("fail0": the
\* first send, "fail1": the second), and then the inner except clause logs and
\* closes the socket.
AcceptConfirm ==
    /\ acc_pc = "loop"
    /\ is_host
    /\ server_socket = "listening"
    /\ \E c \in Conns : sock[c] = "unborn"
    /\ \E o \in {"ok", "fail0", "fail1"} :
        /\ wire' = Written(NextConn, welcome_data, o)
        /\ acc_pc' = confirm_next_pc(o)
        /\ acc_conn' = IF confirm_next_pc(o) = "append" THEN NextConn ELSE None
        /\ IF o = "ok"
           THEN /\ sock' = [sock EXCEPT ![NextConn] = "open"]
                /\ UNCHANGED <<close_calls, inbox, peer_gone>>
           ELSE Close(NextConn)
    /\ UNCHANGED <<is_host, is_connected, server_socket, clients,
                   h_pc, ui_pc, bc_snap, bc_i, bc_sent,
                   bc_failed, bc_removed, bc_stale, stop_i, chat_display, chats,
                   peer_msgs>>
    /\ UNCHANGED joinVars
    /\ UNCHANGED moreVars
    /\ UNCHANGED sideVars

\* self.clients.append(client_socket); client_thread.start().  The new thread
\* has run nothing yet, so the two are one step.
AcceptAppend ==
    /\ acc_pc = "append"
    /\ clients' = Append(clients, acc_conn)
    /\ h_pc' = [h_pc EXCEPT ![acc_conn] = "top"]
    /\ acc_pc' = "loop"
    /\ acc_conn' = None
    /\ UNCHANGED <<is_host, is_connected, server_socket, sock, peer_gone, wire, inbox,
                   close_calls, ui_pc, bc_snap, bc_i, bc_sent,
                   bc_failed, bc_removed, bc_stale, stop_i, chat_display, chats,
                   peer_msgs>>
    /\ UNCHANGED joinVars
    /\ UNCHANGED moreVars
    /\ UNCHANGED sideVars

\* ------------------------------------------------------------ handle_client
\* As HandlerCleanup, with a finally clause that only closes the socket.
HandlerCleanupLeaves(c, eof) ==
    /\ h_pc' = [h_pc EXCEPT ![c] = "done"]
    /\ h_exit' = h_exit
    /\ Close(c)

\* The start of the finally clause, `if client_socket in self.clients:`, taken
\* at once when the loop is left (the thread does nothing in between that another
\* thread could see); when the test fails, the next thing the thread does is
\* client_socket.close() and it is over.  eof: the loop was left on a
\* zero-length read of the length prefix.
HandlerCleanup(c, eof) ==
    IF InList(c, clients)
    THEN /\ h_pc' = [h_pc EXCEPT ![c] = "remove"]
         /\ h_exit' = [h_exit EXCEPT ![c] = IF eof THEN "eof" ELSE "none"]
         /\ NoClose
    ELSE /\ h_pc' = [h_pc EXCEPT ![c] = "done"]
         /\ h_exit' = h_exit
         /\ Close(c)

\* `while self.is_host:`; leaving the loop enters the finally clause.
HandlerTop(c) ==
    /\ h_pc[c] = "top"
    /\ IF is_host
       THEN /\ h_pc' = [h_pc EXCEPT ![c] = "recv"]
            /\ h_exit' = h_exit
            /\ NoClose
       ELSE HandlerCleanup(c, FALSE)
    /\ UNCHANGED <<unpickled, bind_calls, create_warnings>>
    /\ UNCHANGED <<is_host, is_connected, server_socket, clients,
                   wire, acc_pc, acc_conn, ui_pc, bc_snap, bc_i,
                   bc_sent, bc_failed, bc_removed, bc_stale, stop_i, chat_display,
                   chats, peer_msgs>>
    /\ UNCHANGED joinVars
    /\ UNCHANGED sideVars

\* The display after the handler has dispatched a decoded frame: a chat frame
\* is shown through add_chat_message, labelled by its sender field; nothing else
\* is done with it (no broadcast_data call); other types are passed over.
handler_dispatch(frame) ==
    IF frame = "chat" THEN [chat_display EXCEPT !.peer = @ + 1] ELSE chat_display

\* `if not received_data: break` is not taken: the accumulated bytes, all of the
\* advertised payload or the part that came before recv returned b'', go to
\* pickle.loads.
handler_decodes(frame) == frame # "cut0"

\* One pass of the loop body with a frame to read: recv of the prefix, the recv
\* loop of the payload (left by its inner break when a recv returns b''),
\* `if not received_data: break`, pickle.loads, dispatch on data['type'].
\* pickle.loads raises on a payload cut short; the inner except clause logs and
\* continues the outer loop.
HandlerFrame(c) ==
    /\ h_pc[c] = "recv"
    /\ sock[c] = "open"
    /\ inbox[c] # <<>>
    /\ chat_display' = handler_dispatch(Head(inbox[c]))
    /\ IF handler_decodes(Head(inbox[c]))
       THEN /\ unpickled' = unpickled \cup {Head(inbox[c])}
            /\ inbox' = [inbox EXCEPT ![c] = Tail(@)]
            /\ h_pc' = [h_pc EXCEPT ![c] = "top"]
            /\ UNCHANGED <<h_exit, sock, close_calls, peer_gone>>
       ELSE /\ unpickled' = unpickled
            /\ h_exit' = h_exit
            /\ IF InList(c, clients)
               THEN /\ h_pc' = [h_pc EXCEPT ![c] = "remove"]
                    /\ inbox' = [inbox EXCEPT ![c] = Tail(@)]
                    /\ UNCHANGED <<sock, close_calls, peer_gone>>
               ELSE /\ h_pc' = [h_pc EXCEPT ![c] = "done"]
                    /\ Close(c)
    /\ UNCHANGED <<bind_calls, create_warnings>>
    /\ UNCHANGED <<is_host, is_connected, server_socket, clients,
                   wire, acc_pc, acc_conn, ui_pc, bc_snap, bc_i, bc_sent,
                   bc_failed, bc_removed, bc_stale, stop_i, chats, peer_msgs>>
    /\ UNCHANGED joinVars
    /\ UNCHANGED sideVars

\* recv returns b'' (the peer closed, nothing left to read) or raises (the
\* socket object was closed by another thread): the loop is left.
HandlerBreak(c) ==
    /\ h_pc[c] = "recv"
    /\ \/ sock[c] = "closed"
       \/ inbox[c] = <<>> /\ peer_gone[c]
    /\ HandlerCleanup(c, sock[c] = "open")
    /\ UNCHANGED <<unpickled, bind_calls, create_warnings>>
    /\ UNCHANGED <<is_host, is_connected, server_socket, clients,
                   wire, acc_pc, acc_conn, ui_pc, bc_snap, bc_i,
                   bc_sent, bc_failed, bc_removed, bc_stale, stop_i, chat_display,
                   chats, peer_msgs>>
    /\ UNCHANGED joinVars
    /\ UNCHANGED sideVars

\* `self.clients.remove(client_socket)`, then client_socket.close().  remove
\* raises ValueError when the element has gone since the test; raised inside
\* finally, it ends the thread before close().  Either way the thread is over
\* and its locals with it.
HandlerRemove(c) ==
    /\ h_pc[c] = "remove"
    /\ IF InList(c, clients)
       THEN /\ clients' = ListRemove(clients, c)
            /\ Close(c)
            /\ h_pc' = [h_pc EXCEPT ![c] = "done"]
       ELSE /\ h_pc' = [h_pc EXCEPT ![c] = "died"]
            /\ clients' = clients
            /\ NoClose
    /\ h_exit' = [h_exit EXCEPT ![c] = "none"]
    /\ UNCHANGED <<unpickled, bind_calls, create_warnings>>
    /\ UNCHANGED <<is_host, is_connected, server_socket, wire,
                   acc_pc, acc_conn, ui_pc, bc_snap, bc_i, bc_sent,
                   bc_failed, bc_removed, bc_stale, stop_i, chat_display, chats,
                   peer_msgs>>
    /\ UNCHANGED joinVars
    /\ UNCHANGED sideVars

\* ------------------------------------------------------------ remote peers
\* A peer is followed while the host-side socket object is open: what it does
\* after that is read by nobody.
\* What a peer puts on its connection: a chat dictionary, one of another type,
\* or a frame cut short because the peer closes in the middle of it: after the
\* length prefix and a part of the payload ("cut"), or right after the length
\* prefix ("cut0").
PeerFrames == {"chat", "other", "cut", "cut0"}

\* The frame ends with the peer's close before the advertised payload is out.
Truncated(frame) == frame \in {"cut", "cut0"}

PeerSends(c) ==
    /\ sock[c] = "open"
    /\ ~peer_gone[c]
    /\ peer_msgs < MaxPeerMsgs
    /\ \E f \in PeerFrames :
        /\ inbox' = [inbox EXCEPT ![c] = Append(@, f)]
        /\ peer_gone' = [peer_gone EXCEPT ![c] = Truncated(f)]
    /\ peer_msgs' = peer_msgs + 1
    /\ UNCHANGED moreVars
    /\ UNCHANGED <<is_host, is_connected, server_socket, clients, sock,
                   wire, close_calls, acc_pc, acc_conn, h_pc, ui_pc, bc_snap, bc_i,
                   bc_sent, bc_failed, bc_removed, bc_stale, stop_i, chat_display,
                   chats>>
    /\ UNCHANGED joinVars
    /\ UNCHANGED sideVars

PeerCloses(c) ==
    /\ sock[c] = "open"
    /\ ~peer_gone[c]
    /\ peer_gone' = [peer_gone EXCEPT ![c] = TRUE]
    /\ UNCHANGED <<is_host, is_connected, server_socket, clients, sock, wire, inbox,
                   close_calls, acc_pc, acc_conn, h_pc, ui_pc, bc_snap, bc_i, bc_sent,
                   bc_failed, bc_removed, bc_stale, stop_i, chat_display, chats,
                   peer_msgs>>
    /\ UNCHANGED joinVars
    /\ UNCHANGED moreVars
    /\ UNCHANGED sideVars


\* --------------------------------------- send_chat_message as host (UI thread)
\* The only call of broadcast_data passes no exclude_socket.
exclude_socket == None

\* `self.clients[:]`, the copy broadcast_data iterates.
snapshot(l) == l

\* The loop: on to the next element of the copy, or past the loop.
BcNextPc == IF bc_i < Len(bc_snap) THEN "bc_send" ELSE "bc_show"

BcNextI == IF bc_i < Len(bc_snap) THEN bc_i + 1 ELSE bc_i

\* A non-empty message while connected and hosting: the chat dictionary is built
\* and broadcast_data starts (serializes once, copies the list).
HostChat ==
    /\ ui_pc = "idle"
    /\ j_pc \in {"idle", "failed"}
    /\ is_connected /\ is_host
    /\ chats < MaxChats
    /\ chats' = chats + 1
    /\ bc_snap' = snapshot(clients)
    /\ bc_i' = 1
    /\ bc_sent' = {}
    /\ bc_failed' = {}
    /\ bc_removed' = {}
    /\ bc_stale' = {}
    /\ ui_pc' = IF snapshot(clients) = <<>> THEN "bc_show" ELSE "bc_send"
    /\ UNCHANGED <<is_host, is_connected, server_socket, clients, sock, peer_gone,
                   wire, inbox, close_calls, acc_pc, acc_conn, h_pc, stop_i,
                   chat_display, peer_msgs>>
    /\ UNCHANGED joinVars
    /\ UNCHANGED moreVars
    /\ UNCHANGED sideVars

\* `if client != exclude_socket:` client.send(size); client.send(serialized_data)
BroadcastSend ==
    /\ ui_pc = "bc_send"
    /\ LET c == bc_snap[bc_i] IN
       IF c = exclude_socket
       THEN /\ ui_pc' = BcNextPc
            /\ bc_i' = BcNextI
            /\ UNCHANGED <<wire, bc_sent, bc_failed, bc_stale>>
       ELSE \E o \in SendOutcomes(c) :
            /\ wire' = Written(c, chat_data("host"), o)
            /\ bc_stale' = IF sock[c] = "closed" THEN bc_stale \cup {c} ELSE bc_stale
            /\ IF o = "ok"
               THEN /\ bc_sent' = bc_sent \cup {c}
                    /\ bc_failed' = bc_failed
                    /\ ui_pc' = BcNextPc
                    /\ bc_i' = BcNextI
               ELSE /\ bc_sent' = bc_sent
                    /\ bc_failed' = bc_failed \cup {c}
                    /\ ui_pc' = "bc_check"
                    /\ bc_i' = bc_i
    /\ UNCHANGED <<is_host, is_connected, server_socket, clients, sock, peer_gone,
                   inbox, close_calls, acc_pc, acc_conn, h_pc, bc_snap, bc_removed,
                   stop_i, chat_display, chats, peer_msgs>>
    /\ UNCHANGED joinVars
    /\ UNCHANGED moreVars
    /\ UNCHANGED sideVars

\* The except clause of the send: `if client in self.clients:`
BroadcastCheck ==
    /\ ui_pc = "bc_check"
    /\ IF InList(bc_snap[bc_i], clients)
       THEN ui_pc' = "bc_remove" /\ bc_i' = bc_i
       ELSE ui_pc' = BcNextPc /\ bc_i' = BcNextI
    /\ UNCHANGED <<is_host, is_connected, server_socket, clients, sock, peer_gone,
                   wire, inbox, close_calls, acc_pc, acc_conn, h_pc, bc_snap, bc_sent,
                   bc_failed, bc_removed, bc_stale, stop_i, chat_display,
                   chats, peer_msgs>>
    /\ UNCHANGED joinVars
    /\ UNCHANGED moreVars
    /\ UNCHANGED sideVars

\* `self.clients.remove(client)`, then client.close().  remove raises ValueError
\* when the element has gone since the test; it leaves the loop for
\* broadcast_data's outer except clause.
BroadcastRemove ==
    /\ ui_pc = "bc_remove"
    /\ IF InList(bc_snap[bc_i], clients)
       THEN /\ clients' = ListRemove(clients, bc_snap[bc_i])
            /\ bc_removed' = bc_removed \cup {bc_snap[bc_i]}
            /\ Close(bc_snap[bc_i])
            /\ ui_pc' = BcNextPc
            /\ bc_i' = BcNextI
       ELSE /\ ui_pc' = "bc_except"
            /\ NoClose
            /\ UNCHANGED <<clients, bc_removed, bc_i>>
    /\ UNCHANGED <<is_host, is_connected, server_socket, wire,
                   acc_pc, acc_conn, h_pc, bc_snap, bc_sent,
                   bc_failed, bc_stale, stop_i, chat_display, chats, peer_msgs>>
    /\ UNCHANGED joinVars
    /\ UNCHANGED moreVars
    /\ UNCHANGED sideVars

\* broadcast_data has returned: its locals are gone.
BroadcastOver ==
    /\ bc_snap' = <<>>
    /\ bc_i' = 0
    /\ bc_sent' = {}
    /\ bc_failed' = {}
    /\ bc_removed' = {}
    /\ bc_stale' = {}

\* After the loop: broadcast_data queues add_chat_message("我", content) for a
\* chat dictionary whose sender is not 'client', and send_chat_message then calls
\* add_chat_message("我", message) itself.
BroadcastShow ==
    /\ ui_pc = "bc_show"
    /\ chat_display' = [chat_display EXCEPT !.me = @ + 2]
    /\ ui_pc' = "idle"
    /\ BroadcastOver
    /\ UNCHANGED <<is_host, is_connected, server_socket, clients, sock, peer_gone,
                   wire, inbox, close_calls, acc_pc, acc_conn, h_pc, stop_i,
                   chats, peer_msgs>>
    /\ UNCHANGED joinVars
    /\ UNCHANGED moreVars
    /\ UNCHANGED sideVars

\* broadcast_data's outer except clause logs the ValueError and returns without
\* queueing the display; send_chat_message goes on to its own add_chat_message.
BroadcastExcept ==
    /\ ui_pc = "bc_except"
    /\ chat_display' = [chat_display EXCEPT !.me = @ + 1]
    /\ ui_pc' = "idle"
    /\ BroadcastOver
    /\ UNCHANGED <<is_host, is_connected, server_socket, clients, sock, peer_gone,
                   wire, inbox, close_calls, acc_pc, acc_conn, h_pc, stop_i,
                   chats, peer_msgs>>
    /\ UNCHANGED joinVars
    /\ UNCHANGED moreVars
    /\ UNCHANGED sideVars

\* ------------------------------------------- stop_server (UI thread, hosting)
\* The create button while hosting: create_meeting's else branch.
StopStart ==
    /\ ui_pc = "idle"
    /\ j_pc \in {"idle", "failed"}
    /\ is_host
    /\ stop_i' = 1
    /\ ui_pc' = "stop_loop"
    /\ UNCHANGED <<is_host, is_connected, server_socket, clients, sock, peer_gone,
                   wire, inbox, close_calls, acc_pc, acc_conn, h_pc, bc_snap, bc_i,
                   bc_sent, bc_failed, bc_removed, bc_stale, chat_display,
                   chats, peer_msgs>>
    /\ UNCHANGED joinVars
    /\ UNCHANGED moreVars
    /\ UNCHANGED sideVars

\* `for client in self.clients: client.close()`: the iterator walks the live list
\* by index.
StopLoop ==
    /\ ui_pc = "stop_loop"
    /\ IF stop_i <= Len(clients)
       THEN /\ Close(clients[stop_i])
            /\ stop_i' = stop_i + 1
            /\ ui_pc' = "stop_loop"
       ELSE /\ ui_pc' = "stop_flags"
            /\ stop_i' = 0
            /\ NoClose
    /\ UNCHANGED <<is_host, is_connected, server_socket, clients, wire,
                   acc_pc, acc_conn, h_pc, bc_snap, bc_i, bc_sent, bc_failed,
                   bc_removed, bc_stale, chat_display, chats, peer_msgs>>
    /\ UNCHANGED joinVars
    /\ UNCHANGED moreVars
    /\ UNCHANGED sideVars

\* As StopFlags, clearing is_connected and leaving is_host set.
StopFlagsKeepsHost ==
    /\ ui_pc = "stop_flags"
    /\ server_socket' = "closed"
    /\ is_host' = is_host
    /\ is_connected' = FALSE
    /\ ui_pc' = "stop_clear"
    /\ UNCHANGED <<clients, sock, peer_gone, wire, inbox, close_calls,
                   acc_pc, acc_conn, h_pc, bc_snap, bc_i, bc_sent, bc_failed,
                   bc_removed, bc_stale, stop_i, chat_display, chats,
                   peer_msgs>>
    /\ UNCHANGED joinVars
    /\ UNCHANGED moreVars
    /\ UNCHANGED sideVars

\* `self.server_socket.close(); self.is_host = False; self.is_connected = False`
StopFlags ==
    /\ ui_pc = "stop_flags"
    /\ server_socket' = "closed"
    /\ is_host' = FALSE
    /\ is_connected' = FALSE
    /\ ui_pc' = "stop_clear"
    /\ UNCHANGED <<clients, sock, peer_gone, wire, inbox, close_calls,
                   acc_pc, acc_conn, h_pc, bc_snap, bc_i, bc_sent, bc_failed,
                   bc_removed, bc_stale, stop_i, chat_display, chats,
                   peer_msgs>>
    /\ UNCHANGED joinVars
    /\ UNCHANGED moreVars
    /\ UNCHANGED sideVars

\* `self.clients = []` and the button texts
StopClear ==
    /\ ui_pc = "stop_clear"
    /\ clients' = <<>>
    /\ ui_pc' = "idle"
    /\ UNCHANGED <<is_host, is_connected, server_socket, sock, peer_gone, wire, inbox,
                   close_calls, acc_pc, acc_conn, h_pc, bc_snap, bc_i, bc_sent,
                   bc_failed, bc_removed, bc_stale, stop_i, chat_display,
                   chats, peer_msgs>>
    /\ UNCHANGED joinVars
    /\ UNCHANGED moreVars
    /\ UNCHANGED sideVars

\* ------------------------------------------------------------ join_meeting
\* The methods of VideoConference the session layer calls on self.  A call of
\* any other name raises AttributeError (QMainWindow has none of them either).
Methods ==
    {"create_meeting", "stop_server", "accept_connections", "handle_client",
     "send_to_client", "receive_from_client", "broadcast_data", "receive_data",
     "join_meeting", "_connect_to_server", "_wait_for_connection_confirm",
     "_setup_client_connection", "disconnect_from_meeting", "send_chat_message",
     "send_file", "_prepare_file_info", "_calculate_file_md5", "_file_transfer_task",
     "_handle_file_data", "_complete_file_transfer", "add_chat_message",
     "_handle_chat_data", "log_event", "update_network_status"}

Defined(m) == m \in Methods

\* What one connection attempt meets: the transport connect is refused or times
\* out ("refused"), or it connects and the first thing the host sends within the
\* timeout is nothing ("absent"), bytes that do not unpickle ("garbage"), a
\* frame other than the confirmation ("other"), or the confirmation.
AttemptCases == {"refused", "absent", "garbage", "other", "confirmed"}

\* self.client_socket.connect((ip, port)) returns instead of raising.
Connects(case) == case # "refused"

\* The dictionary the host has put first on the connection, if any.
FirstFrame(case) ==
    IF case = "confirmed" THEN welcome_data
    ELSE IF case = "other" THEN chat_data("host")
    ELSE [type |-> "", content |-> "", sender |-> ""]

\* `self._receive_data()` as called by _wait_for_connection_confirm: the call
\* raises AttributeError, the class defining no such method, whatever is on the
\* connection.
_receive_data(case) == [raised |-> ~Defined("_receive_data"), data |-> FirstFrame(case)]

\* As _wait_for_connection_confirm, with `except Exception: return True`.
_wait_for_connection_confirm_lenient(case) ==
    LET r == _receive_data(case)
    IN  IF r.raised THEN TRUE
        ELSE r.data.type = "system" /\ r.data.content = "connection_confirmed"

\* try: data = self._receive_data(); return data is the confirmation
\* except Exception: return False
_wait_for_connection_confirm(case) ==
    LET r == _receive_data(case)
    IN  IF r.raised THEN FALSE
        ELSE r.data.type = "system" /\ r.data.content = "connection_confirmed"

\* _connect_to_server reaches _setup_client_connection.
Confirmed(case) == Connects(case) /\ _wait_for_connection_confirm(case)

\* _setup_client_connection sets is_connected, then calls _start_receive_thread
\* and _update_ui_after_connect; the first undefined one raises.
SetupRaises == ~Defined("_start_receive_thread") \/ ~Defined("_update_ui_after_connect")

\* _connect_to_server raises: connect failed, no confirmation, or the setup raised.
ConnectRaises(case) == ~Confirmed(case) \/ SetupRaises

\* As is_last_attempt, comparing with retry_count.
is_last_attempt_off_by_one(a) == a = retry_count

\* `if attempt == self.retry_count - 1:`
is_last_attempt(a) == a = retry_count - 1

\* The join button.  It is disabled while hosting (create_meeting disables it,
\* stop_server enables it), and is_connected is false outside hosting, so the
\* call enters the retry loop; the else branch is disconnect_from_meeting.
join_meeting ==
    /\ ui_pc = "idle"
    /\ j_pc \in {"idle", "failed"}
    /\ ~is_host
    /\ joins < MaxJoins
    /\ joins' = joins + 1
    /\ IF ~is_connected
       THEN /\ j_pc' = "try"
            /\ attempt' = 0
            /\ attempts' = <<>>
            /\ sleeps' = 0
            /\ errors_emitted' = 0
            /\ UNCHANGED <<client_socket, is_connected, chat_display>>
       ELSE /\ client_socket' = IF client_socket = "none" THEN "none" ELSE "closed"
            /\ is_connected' = FALSE
            /\ chat_display' = [chat_display EXCEPT !.system = @ + 1]
            /\ UNCHANGED <<j_pc, attempt, attempts, sleeps, errors_emitted>>
    /\ UNCHANGED <<is_host, server_socket, clients, sock, peer_gone, wire, inbox,
                   close_calls, acc_pc, acc_conn, h_pc, ui_pc, bc_snap, bc_i, bc_sent,
                   bc_failed, bc_removed, bc_stale, stop_i, chats, peer_msgs>>
    /\ UNCHANGED <<client_chats, rx_started, server_gone>>
    /\ UNCHANGED moreVars
    /\ UNCHANGED sideVars

\* One pass of `for attempt in range(self.retry_count)`: _connect_to_server and
\* what join_meeting does with its outcome.
JoinAttempt ==
    /\ j_pc = "try"
    /\ \E case \in AttemptCases :
        /\ attempts' = Append(attempts, case)
        /\ client_socket' = IF Connects(case) THEN "connected" ELSE "unconnected"
        /\ server_gone' = FALSE
        /\ is_connected' = IF Confirmed(case) THEN TRUE ELSE is_connected
        /\ rx_started' = IF Confirmed(case) /\ Defined("_start_receive_thread")
                         THEN TRUE ELSE rx_started
        /\ IF ~ConnectRaises(case)
           THEN /\ j_pc' = "idle"
                /\ UNCHANGED errors_emitted
           ELSE IF is_last_attempt(attempt)
           THEN /\ j_pc' = "failed"
                /\ errors_emitted' = errors_emitted + 1
           ELSE /\ j_pc' = "sleep"
                /\ UNCHANGED errors_emitted
    /\ UNCHANGED <<attempt, sleeps, joins, client_chats>>
    /\ UNCHANGED <<is_host, server_socket, clients, sock, peer_gone, wire, inbox,
                   close_calls, acc_pc, acc_conn, h_pc, ui_pc, bc_snap, bc_i, bc_sent,
                   bc_failed, bc_removed, bc_stale, stop_i, chat_display, chats,
                   peer_msgs>>
    /\ UNCHANGED moreVars
    /\ UNCHANGED sideVars

\* time.sleep(1), then the loop takes its next value or is exhausted.
JoinSleep ==
    /\ j_pc = "sleep"
    /\ sleeps' = sleeps + 1
    /\ attempt' = attempt + 1
    /\ j_pc' = IF attempt + 1 < retry_count THEN "try" ELSE "idle"
    /\ UNCHANGED <<client_socket, attempts, errors_emitted, joins, client_chats,
                   rx_started, server_gone>>
    /\ UNCHANGED hostVars
    /\ UNCHANGED moreVars
    /\ UNCHANGED sideVars

\* send_chat_message while not hosting, with a non-empty message: nothing
\* happens unless is_connected; then self.send_data(data) comes before
\* add_chat_message("我", message), and when it raises the except clause logs.
ClientChat ==
    /\ ui_pc = "idle"
    /\ j_pc \in {"idle", "failed"}
    /\ ~is_host
    /\ client_chats < MaxChats
    /\ client_chats' = client_chats + 1
    /\ chat_display' = IF is_connected /\ Defined("send_data")
                       THEN [chat_display EXCEPT !.me = @ + 1]
                       ELSE chat_display
    /\ UNCHANGED <<client_socket, j_pc, attempt, attempts, sleeps, errors_emitted,
                   joins, rx_started, server_gone>>
    /\ UNCHANGED <<is_host, is_connected, server_socket, clients, sock, peer_gone,
                   wire, inbox, close_calls, acc_pc, acc_conn, h_pc, ui_pc, bc_snap,
                   bc_i, bc_sent, bc_failed, bc_removed, bc_stale, stop_i, chats,
                   peer_msgs>>
    /\ UNCHANGED moreVars
    /\ UNCHANGED sideVars

\* The host closes the connection the client's socket object is on (it stops,
\* or its handler for the connection ends).  Nothing of the client reads the
\* socket after _connect_to_server has returned or raised.
ServerCloses ==
    /\ client_socket = "connected"
    /\ ~server_gone
    /\ server_gone' = TRUE
    /\ UNCHANGED <<client_socket, j_pc, attempt, attempts, sleeps, errors_emitted,
                   joins, client_chats, rx_started>>
    /\ UNCHANGED hostVars
    /\ UNCHANGED moreVars
    /\ UNCHANGED sideVars

JoinNext == join_meeting \/ JoinAttempt \/ JoinSleep \/ ClientChat \/ ServerCloses

SpecJoin == Init /\ [][JoinNext]_vars

\* join_meeting's loop runs in the UI thread and goes on by itself; the button
\* presses and the host's close are the environment's.
SpecJoinFair == SpecJoin /\ WF_vars(JoinAttempt) /\ WF_vars(JoinSleep)

\* ------------------------------------------------------ the hosting session
\* A hosting session whose peers send no frames: they connect, stay or close.
\* (A frame from a peer ends in the chat display and nowhere else, see
\* HandlerFrame.)
QuietNext ==
    \/ create_meeting
    \/ AcceptConfirm \/ AcceptAppend \/ AcceptEnds
    \/ \E c \in Conns :
        \/ HandlerTop(c) \/ HandlerBreak(c) \/ HandlerRemove(c)
        \/ PeerCloses(c)
    \/ HostChat \/ BroadcastSend \/ BroadcastCheck \/ BroadcastRemove
    \/ BroadcastShow \/ BroadcastExcept
    \/ StopStart \/ StopLoop \/ StopFlags \/ StopClear

SpecQuiet == Init /\ [][QuietNext]_vars

\* The hosting session with everything the peers can do.
HostNext ==
    \/ create_meeting
    \/ AcceptConfirm \/ AcceptAppend \/ AcceptEnds
    \/ \E c \in Conns :
        \/ HandlerTop(c) \/ HandlerFrame(c) \/ HandlerBreak(c) \/ HandlerRemove(c)
        \/ PeerSends(c) \/ PeerCloses(c)
    \/ HostChat \/ BroadcastSend \/ BroadcastCheck \/ BroadcastRemove
    \/ BroadcastShow \/ BroadcastExcept
    \/ StopStart \/ StopLoop \/ StopFlags \/ StopClear

SpecHost == Init /\ [][HostNext]_vars

\* The hosting session in which the local user sends no chat: the peers
\* connect, send frames, close, and the host stops.
FramesNext ==
    \/ create_meeting
    \/ AcceptConfirm \/ AcceptAppend \/ AcceptEnds
    \/ \E c \in Conns :
        \/ HandlerTop(c) \/ HandlerFrame(c) \/ HandlerBreak(c) \/ HandlerRemove(c)
        \/ PeerSends(c) \/ PeerCloses(c)
    \/ StopStart \/ StopLoop \/ StopFlags \/ StopClear

SpecFrames == Init /\ [][FramesNext]_vars

\* The threads of the host go on by themselves: the accept thread once accept()
\* has returned or the loop test fails, every handler thread whenever its recv
\* has something to return or to raise, stop_server once it was called.  The
\* button presses and what the peers do (connect, send, close) are the
\* environment's.
SpecFramesFair ==
    /\ SpecFrames
    /\ WF_vars(AcceptAppend) /\ WF_vars(AcceptEnds)
    /\ \A c \in Conns :
          /\ WF_vars(HandlerTop(c)) /\ WF_vars(HandlerFrame(c))
          /\ WF_vars(HandlerBreak(c)) /\ WF_vars(HandlerRemove(c))
    /\ WF_vars(StopLoop) /\ WF_vars(StopFlags) /\ WF_vars(StopClear)


\* ------------------------------------------------ framing on one connection
\* One connection seen from both ends: send_to_client writes on one end,
\* receive_from_client is called again and again on the other.  A byte is a
\* number in 0..255.

\* The messages of the five types (spec.md, "Messages"), with one value per
\* field.
Messages ==
    { [type |-> "system", content |-> "connection_confirmed"],
      [type |-> "chat", sender |-> "client", content |-> "hi"],
      [type |-> "file_info", transfer_id |-> "t1", info |-> "f"],
      [type |-> "file_data", transfer_id |-> "t1", chunk |-> "bytes"],
      [type |-> "file_end", transfer_id |-> "t1", md5 |-> "d"] }

\* pickle: a dict is written as the protocol mark, then key and value of each
\* item, then the stop mark.  Every key and value is one byte here, its place
\* in Atoms.
Atoms == <<"type", "content", "sender", "transfer_id", "info", "chunk", "md5",
           "system", "chat", "file_info", "file_data", "file_end",
           "connection_confirmed", "hi", "client", "t1", "f", "bytes", "d">>

PROTO == 128

STOP == 46

AtomByte(a) == CHOOSE i \in 1..Len(Atoms) : Atoms[i] = a

Keys(M) == SelectSeq(Atoms, LAMBDA a : a \in DOMAIN M)

RECURSIVE Items(_, _)
Items(M, ks) ==
    IF ks = <<>> THEN <<>>
    ELSE <<AtomByte(Head(ks)), AtomByte(M[Head(ks)])>> \o Items(M, Tail(ks))

pickle_dumps(M) == <<PROTO>> \o Items(M, Keys(M)) \o <<STOP>>

\* pickle.loads raises on bytes that are not a whole pickle.
pickle_loadable(b) ==
    /\ Len(b) >= 2
    /\ Len(b) % 2 = 0
    /\ b[1] = PROTO
    /\ b[Len(b)] = STOP
    /\ \A i \in 2..(Len(b) - 1) : b[i] \in 1..Len(Atoms)

pickle_loads(b) ==
    LET n == (Len(b) - 2) \div 2
        key(i) == Atoms[b[2 * i]]
        val(i) == Atoms[b[2 * i + 1]]
    IN  [k \in {key(i) : i \in 1..n} |-> val(CHOOSE i \in 1..n : key(i) = k)]

\* struct.pack('!I', n): four bytes, most significant first.
struct_pack(n) ==
    <<(n \div 16777216) % 256, (n \div 65536) % 256, (n \div 256) % 256, n % 256>>

\* struct.unpack('!I', b) of exactly four bytes.
struct_unpack(b) == b[1] * 16777216 + b[2] * 65536 + b[3] * 256 + b[4]

Min(a, b) == IF a <= b THEN a ELSE b

\* send_to_client: the prefix, then the serialized message.
send_to_client ==
    /\ ~tx_closed
    /\ Len(tx_sent) < MaxMsgs
    /\ \E M \in Messages :
        LET serialized_data == pickle_dumps(M)
            size == struct_pack(Len(serialized_data))
        IN  /\ stream' = stream \o size \o serialized_data
            /\ tx_sent' = Append(tx_sent, M)
    /\ UNCHANGED <<tx_closed, rx_pc, data_size, received_data, rx_out>>
    /\ UNCHANGED <<hostVars, joinVars, moreVars, sesVars, csVars, fileVars, recvVars>>

\* The sending end closes the connection.
SenderCloses ==
    /\ ~tx_closed
    /\ tx_closed' = TRUE
    /\ UNCHANGED <<tx_sent, stream, rx_pc, data_size, received_data, rx_out>>
    /\ UNCHANGED <<hostVars, joinVars, moreVars, sesVars, csVars, fileVars, recvVars>>

\* What one recv(bufsize) call may return: any non-empty prefix of the bytes
\* that were written and not read, up to bufsize; the empty byte string once
\* the other end has closed and everything was read.  The call blocks while
\* nothing was written and the other end is open.
RecvLengths(bufsize) ==
    IF stream # <<>> THEN 1..Min(bufsize, Len(stream))
    ELSE IF tx_closed THEN {0}
    ELSE {}

\* receive_from_client, from its entry to the start of the payload loop: one
\* recv call for the prefix.
ReceiveSize ==
    /\ rx_pc = "idle"
    /\ \E k \in RecvLengths(4) :
        LET size_data == SubSeq(stream, 1, k)
        IN  /\ stream' = SubSeq(stream, k + 1, Len(stream))
            /\ IF k = 0
               THEN /\ rx_pc' = "returned_none"
                    /\ UNCHANGED data_size
               ELSE IF Len(size_data) # 4
               THEN /\ rx_pc' = "raised"          \* struct.error
                    /\ UNCHANGED data_size
               ELSE /\ data_size' = struct_unpack(size_data)
                    /\ rx_pc' = IF struct_unpack(size_data) = 0
                                THEN "raised"     \* pickle.loads(b"")
                                ELSE "payload"
    /\ received_data' = <<>>
    /\ UNCHANGED <<tx_sent, tx_closed, rx_out>>
    /\ UNCHANGED <<hostVars, joinVars, moreVars, sesVars, csVars, fileVars, recvVars>>

\* receive_from_client: one turn of the payload loop, and the return when the
\* payload is whole.
ReceivePayload ==
    /\ rx_pc = "payload"
    /\ \E k \in RecvLengths(Min(data_size - Len(received_data), recv_limit)) :
        LET chunk == SubSeq(stream, 1, k)
            whole == received_data \o chunk
        IN  /\ stream' = SubSeq(stream, k + 1, Len(stream))
            /\ received_data' = whole
            /\ IF k = 0
               THEN /\ rx_pc' = "returned_none"
                    /\ UNCHANGED rx_out
               ELSE IF Len(whole) < data_size
               THEN UNCHANGED <<rx_pc, rx_out>>
               ELSE IF pickle_loadable(whole)
               THEN /\ rx_out' = Append(rx_out, pickle_loads(whole))
                    /\ rx_pc' = "idle"
               ELSE /\ rx_pc' = "raised"
                    /\ UNCHANGED rx_out
    /\ UNCHANGED <<tx_sent, tx_closed, data_size>>
    /\ UNCHANGED <<hostVars, joinVars, moreVars, sesVars, csVars, fileVars, recvVars>>

CodecNext == send_to_client \/ SenderCloses \/ ReceiveSize \/ ReceivePayload

SpecCodec == Init /\ [][CodecNext]_vars


\* ----------------------------------------------------------- file transfer
\* Sizes of the files the user picks: empty, one chunk, a chunk and a byte.
FileSizes == {0, chunk_size, chunk_size + 1}

\* uuid.uuid4(): an id no transfer has had.
NewTransfer == CHOOSE t \in Transfers :
    t_pc[t] = "unstarted" /\ \A u \in 1..(t - 1) : t_pc[u] # "unstarted"

\* Bytes (a file's content, a chunk, a receive buffer) by what the transfer
\* reads of them: how many there are, and whether they are the bytes the sender
\* read from the file.
Bytes(length, intact) == [length |-> length, intact |-> intact]

\* hashlib.md5(...).hexdigest(): equal bytes give equal digests, and no two
\* different contents met here share one.
md5(bytes) == <<"md5", bytes.length, bytes.intact>>

\* _prepare_file_info of a readable file.
_prepare_file_info(size) ==
    [name |-> "name", size |-> size, md5 |-> md5(Bytes(size, TRUE))]

\* The entry send_file makes.
new_entry(size) ==
    [path |-> "path", info |-> _prepare_file_info(size), status |-> "preparing"]

\* self.pending_files[transfer_id] = entry
dict_set(d, k, v) == [u \in DOMAIN d \cup {k} |-> IF u = k THEN v ELSE d[u]]

\* As dict_del, emptying the dict.
dict_del_all(d, k) == <<>>

\* del self.pending_files[transfer_id], the key being there
dict_del(d, k) == [u \in DOMAIN d \ {k} |-> d[u]]

file_info_msg(size) == <<"file_info", size>>

file_data_msg(length) == <<"file_data", length>>

file_end_msg == <<"file_end">>

\* send_file, the file dialog not cancelled.  _prepare_file_info returns None
\* for a file it cannot stat or read (after logging), and send_file returns;
\* otherwise the transfer gets its entry and its thread.
send_file ==
    /\ prepare_log + Cardinality({t \in Transfers : t_pc[t] # "unstarted"}) < MaxTransfers
    /\ \E readable \in BOOLEAN, size \in FileSizes :
        IF readable
        THEN LET transfer_id == NewTransfer
             IN  /\ pending_files' = dict_set(pending_files, transfer_id, new_entry(size))
                 /\ file_size' = [file_size EXCEPT ![transfer_id] = size]
                 /\ t_pc' = [t_pc EXCEPT ![transfer_id] = "info"]
                 /\ UNCHANGED prepare_log
        ELSE /\ prepare_log' = prepare_log + 1
             /\ UNCHANGED <<pending_files, file_size, t_pc>>
    /\ UNCHANGED <<sent_size, emitted, transfer_log, progress>>
    /\ UNCHANGED <<hostVars, joinVars, moreVars, sesVars, csVars, codecVars, recvVars>>

\* As except_next_pc, taking the transfer up again from its start.
except_next_pc_restarts == "info"

\* Where the task goes from its except clause: the clause logs and falls
\* through to the finally clause.
except_next_pc == "finally"

\* _file_transfer_task, one step of the thread of transfer t.  self.send_data
\* is looked up at each call; the lookup of a method the class does not have
\* raises AttributeError, which the except clause logs.
_file_transfer_task(t) ==
    /\ t_pc[t] \in {"info", "chunks", "end", "except", "finally"}
    /\ IF t_pc[t] = "info"
       THEN IF Defined("send_data")
            THEN /\ emitted' = [emitted EXCEPT ![t] = Append(@, file_info_msg(file_size[t]))]
                 /\ sent_size' = [sent_size EXCEPT ![t] = 0]
                 /\ t_pc' = [t_pc EXCEPT ![t] = "chunks"]
                 /\ UNCHANGED <<pending_files, transfer_log, progress>>
            ELSE /\ t_pc' = [t_pc EXCEPT ![t] = "except"]
                 /\ UNCHANGED <<pending_files, sent_size, emitted, transfer_log, progress>>
       ELSE IF t_pc[t] = "chunks"
       THEN LET length == Min(chunk_size, file_size[t] - sent_size[t])   \* f.read
            IN  IF sent_size[t] < file_size[t] /\ length > 0
                THEN IF Defined("send_data")
                     THEN /\ emitted' = [emitted EXCEPT ![t] = Append(@, file_data_msg(length))]
                          /\ sent_size' = [sent_size EXCEPT ![t] = @ + length]
                          /\ progress' = [progress EXCEPT ![t] =
                                 Append(@, ((sent_size[t] + length) * 100) \div file_size[t])]
                          /\ UNCHANGED <<pending_files, t_pc, transfer_log>>
                     ELSE /\ t_pc' = [t_pc EXCEPT ![t] = "except"]
                          /\ UNCHANGED <<pending_files, sent_size, emitted, transfer_log,
                                         progress>>
                ELSE /\ t_pc' = [t_pc EXCEPT ![t] = "end"]
                     /\ UNCHANGED <<pending_files, sent_size, emitted, transfer_log, progress>>
       ELSE IF t_pc[t] = "end"
       THEN IF Defined("send_data")
            THEN /\ emitted' = [emitted EXCEPT ![t] = Append(@, file_end_msg)]
                 /\ t_pc' = [t_pc EXCEPT ![t] = "finally"]
                 /\ UNCHANGED <<pending_files, sent_size, transfer_log, progress>>
            ELSE /\ t_pc' = [t_pc EXCEPT ![t] = "except"]
                 /\ UNCHANGED <<pending_files, sent_size, emitted, transfer_log, progress>>
       ELSE IF t_pc[t] = "except"
       THEN /\ transfer_log' = [transfer_log EXCEPT ![t] = @ + 1]
            /\ t_pc' = [t_pc EXCEPT ![t] = except_next_pc]
            /\ UNCHANGED <<pending_files, sent_size, emitted, progress>>
       ELSE IF t \in DOMAIN pending_files
       THEN /\ pending_files' = dict_del(pending_files, t)
            /\ t_pc' = [t_pc EXCEPT ![t] = "done"]
            /\ UNCHANGED <<sent_size, emitted, transfer_log, progress>>
       ELSE /\ t_pc' = [t_pc EXCEPT ![t] = "died"]        \* KeyError out of the thread
            /\ UNCHANGED <<pending_files, sent_size, emitted, transfer_log, progress>>
    /\ UNCHANGED <<file_size, prepare_log>>
    /\ UNCHANGED <<hostVars, joinVars, moreVars, sesVars, csVars, codecVars, recvVars>>

FileNext == send_file \/ \E t \in Transfers : _file_transfer_task(t)

SpecFile == Init /\ [][FileNext]_vars

\* ------------------------------------------------- file messages coming in
\* The file of the transfer a peer sends: one chunk.
remote_file == Bytes(1, TRUE)

file_info_data(t) ==
    [type |-> "file_info", transfer_id |-> t, info |-> _prepare_file_info(remote_file.length)]

file_data_data(t, intact) ==
    [type |-> "file_data", transfer_id |-> t, chunk |-> Bytes(remote_file.length, intact)]

file_end_data(t) ==
    [type |-> "file_end", transfer_id |-> t, md5 |-> md5(remote_file)]

file_message(type, t, intact) ==
    IF type = "file_info" THEN file_info_data(t)
    ELSE IF type = "file_data" THEN file_data_data(t, intact)
    ELSE file_end_data(t)

\* As in_pending, taking every id for known.
in_pending_always(d, k) == TRUE

\* `transfer_id in self.pending_files`
in_pending(d, k) == k \in DOMAIN d

\* bytearray.extend
extend(buffer, chunk) ==
    Bytes(buffer.length + chunk.length, buffer.intact /\ chunk.intact)

\* The except clause of _handle_file_data: one '处理文件数据失败' log entry.
HandleRaises ==
    /\ file_failures' = file_failures + 1
    /\ UNCHANGED <<pending_files, progress, saves>>

\* _complete_file_transfer, called from the try block of _handle_file_data.
\* Every raise in it comes before the del statement, its last.
_complete_file_transfer(transfer_id) ==
    LET file_info == pending_files[transfer_id]
    IN  IF "buffer" \notin DOMAIN file_info
        THEN HandleRaises                                  \* KeyError
        ELSE IF md5(file_info.buffer) # file_info.info.md5
        THEN HandleRaises                                  \* "文件校验失败"
        ELSE \E ok \in BOOLEAN :                           \* the save dialog
                /\ saves' = saves + 1
                /\ progress' = IF ok THEN [progress EXCEPT ![transfer_id] = Append(@, 100)]
                               ELSE progress
                /\ pending_files' = dict_del(pending_files, transfer_id)
                /\ UNCHANGED file_failures

\* _handle_file_data(data).
_handle_file_data(data) ==
    LET transfer_id == data.transfer_id
    IN  /\ rx_count' = rx_count + 1
        /\ rx_last' = data
        /\ IF ~in_pending(pending_files, transfer_id)
           THEN UNCHANGED <<pending_files, progress, file_failures, saves>>
           ELSE IF transfer_id \notin DOMAIN pending_files
           THEN HandleRaises                               \* KeyError
           ELSE LET file_info == pending_files[transfer_id]
                IN  IF data.type = "file_data"
                    THEN IF "buffer" \notin DOMAIN file_info
                         THEN HandleRaises                 \* KeyError
                         ELSE LET buffer == extend(file_info.buffer, data.chunk)
                              IN  /\ pending_files' =
                                        [pending_files EXCEPT ![transfer_id].buffer = buffer]
                                  /\ UNCHANGED saves
                                  /\ IF "size" \in DOMAIN file_info /\ file_info.size # 0
                                     THEN /\ progress' = [progress EXCEPT ![transfer_id] =
                                               Append(@, (buffer.length * 100) \div file_info.size)]
                                          /\ UNCHANGED file_failures
                                     ELSE /\ file_failures' = file_failures + 1
                                          /\ UNCHANGED progress
                    ELSE IF data.type = "file_end"
                    THEN _complete_file_transfer(transfer_id)
                    ELSE UNCHANGED <<pending_files, progress, file_failures, saves>>

\* Where the peer's transfer goes after a message.
remote_next_pc ==
    IF remote_pc = "file_info" THEN "file_data"
    ELSE IF remote_pc = "file_data" THEN "file_end"
    ELSE "done"

\* The next message of the transfer a peer sends (file_info, one file_data,
\* file_end, in this order) arrives and is handed to _handle_file_data; the
\* chunk may have been altered on the way.
PeerFileMessage ==
    /\ rx_count < MaxRxMsgs
    /\ remote_pc # "done"
    /\ \E intact \in BOOLEAN :
        /\ _handle_file_data(file_message(remote_pc, Remote, intact))
        /\ remote_corrupt' = (remote_corrupt \/ (remote_pc = "file_data" /\ ~intact))
    /\ remote_pc' = remote_next_pc
    /\ UNCHANGED <<file_size, t_pc, sent_size, emitted, transfer_log, prepare_log>>
    /\ UNCHANGED <<hostVars, joinVars, moreVars, sesVars, csVars, codecVars>>

\* A file_data or file_end message that carries the id of one of this
\* participant's own transfers, running, over or not yet started, is handed to
\* _handle_file_data.
StrayFileMessage ==
    /\ rx_count < MaxRxMsgs
    /\ \E t \in Transfers, type \in {"file_data", "file_end"} :
        _handle_file_data(file_message(type, t, TRUE))
    /\ UNCHANGED <<remote_pc, remote_corrupt>>
    /\ UNCHANGED <<file_size, t_pc, sent_size, emitted, transfer_log, prepare_log>>
    /\ UNCHANGED <<hostVars, joinVars, moreVars, sesVars, csVars, codecVars>>

FileRxNext == FileNext \/ PeerFileMessage \/ StrayFileMessage

SpecFileRx == Init /\ [][FileRxNext]_vars



\* ------------------------------------------------------- sessions in a row
\* create_meeting, stop_server and accept_connections over several hosting
\* sessions of one participant.  Each create_meeting call makes a new socket
\* object and a new accept thread, numbered alike; the handlers and broadcasts
\* of the sessions are left out here (they are followed for one session above).
\* self.is_connected is set and cleared together with self.is_host.

\* create_meeting while not hosting: the k-th call makes socket k; when bind and
\* listen succeed the flags are set, the list is emptied and thread k started.
SesCreate ==
    /\ ses_ui = "idle"
    /\ ~ses_is_host
    /\ ses_socket < MaxSessions
    /\ \E bound \in BOOLEAN :
        LET k == ses_socket + 1
        IN  /\ ses_socket' = k
            /\ IF bound
               THEN /\ ses_listening' = ses_listening \cup {k}
                    /\ ses_is_host' = TRUE
                    /\ ses_clients' = <<>>
                    /\ ses_pc' = [ses_pc EXCEPT ![k] = "loop"]
               ELSE UNCHANGED <<ses_listening, ses_is_host, ses_clients, ses_pc>>
    /\ UNCHANGED <<ses_conn, ses_ui, ses_conns, ses_accepts, ses_appends>>
    /\ UNCHANGED <<hostVars, joinVars, moreVars, codecVars, fileVars, recvVars, csVars>>

\* stop_server (create_meeting while hosting): the loop closing the registered
\* connections and self.server_socket.close().
SesStopClose ==
    /\ ses_ui = "idle"
    /\ ses_is_host
    /\ ses_listening' = ses_listening \ {ses_socket}
    /\ ses_ui' = "stop_flags"
    /\ UNCHANGED <<ses_is_host, ses_socket, ses_clients, ses_pc, ses_conn, ses_conns,
                   ses_accepts, ses_appends>>
    /\ UNCHANGED <<hostVars, joinVars, moreVars, codecVars, fileVars, recvVars, csVars>>

\* stop_server: self.is_host = False; self.is_connected = False
SesStopFlags ==
    /\ ses_ui = "stop_flags"
    /\ ses_is_host' = FALSE
    /\ ses_ui' = "stop_clear"
    /\ UNCHANGED <<ses_socket, ses_listening, ses_clients, ses_pc, ses_conn, ses_conns,
                   ses_accepts, ses_appends>>
    /\ UNCHANGED <<hostVars, joinVars, moreVars, codecVars, fileVars, recvVars, csVars>>

\* stop_server: self.clients = [] and the button texts
SesStopClear ==
    /\ ses_ui = "stop_clear"
    /\ ses_clients' = <<>>
    /\ ses_ui' = "idle"
    /\ UNCHANGED <<ses_is_host, ses_socket, ses_listening, ses_pc, ses_conn, ses_conns,
                   ses_accepts, ses_appends>>
    /\ UNCHANGED <<hostVars, joinVars, moreVars, codecVars, fileVars, recvVars, csVars>>

\* accept_connections, thread k: `while self.is_host:` is true and
\* self.server_socket.accept(), on whatever socket the attribute is now, returns
\* a connection; the two handshake sends succeed or one raises (the connection
\* is closed and the loop goes on).
SesAccept(k) ==
    /\ ses_pc[k] = "loop"
    /\ ses_is_host
    /\ ses_socket \in ses_listening
    /\ ses_conns < MaxSesConns
    /\ ses_conns' = ses_conns + 1
    /\ ses_accepts' = ses_accepts \cup {<<k, ses_socket>>}
    /\ \E ok \in BOOLEAN :
        /\ ses_pc' = [ses_pc EXCEPT ![k] = IF ok THEN "append" ELSE "loop"]
        /\ ses_conn' = [ses_conn EXCEPT ![k] = IF ok THEN ses_socket ELSE 0]
    /\ UNCHANGED <<ses_is_host, ses_socket, ses_listening, ses_clients, ses_ui,
                   ses_appends>>
    /\ UNCHANGED <<hostVars, joinVars, moreVars, codecVars, fileVars, recvVars, csVars>>

\* accept_connections, thread k: self.clients.append(client_socket) and the
\* start of the handler thread.  The list is the one self.clients is now; it
\* is the list of session ses_socket.
SesAppend(k) ==
    /\ ses_pc[k] = "append"
    /\ ses_clients' = Append(ses_clients, [by |-> k, on |-> ses_conn[k]])
    /\ ses_appends' = ses_appends \cup {<<k, ses_socket>>}
    /\ ses_pc' = [ses_pc EXCEPT ![k] = "loop"]
    /\ ses_conn' = [ses_conn EXCEPT ![k] = 0]
    /\ UNCHANGED <<ses_is_host, ses_socket, ses_listening, ses_ui, ses_conns,
                   ses_accepts>>
    /\ UNCHANGED <<hostVars, joinVars, moreVars, codecVars, fileVars, recvVars, csVars>>

\* accept_connections, thread k: `while self.is_host:` is false, the thread
\* ends.
SesLoopEnds(k) ==
    /\ ses_pc[k] = "loop"
    /\ ~ses_is_host
    /\ ses_pc' = [ses_pc EXCEPT ![k] = "done"]
    /\ UNCHANGED <<ses_is_host, ses_socket, ses_listening, ses_clients, ses_conn,
                   ses_ui, ses_conns, ses_accepts, ses_appends>>
    /\ UNCHANGED <<hostVars, joinVars, moreVars, codecVars, fileVars, recvVars, csVars>>

SessionsNext ==
    \/ SesCreate \/ SesStopClose \/ SesStopFlags \/ SesStopClear
    \/ \E k \in Sessions : SesAccept(k) \/ SesAppend(k) \/ SesLoopEnds(k)

SpecSessions == Init /\ [][SessionsNext]_vars


\* ------------------------------------------------------------ the two roles
\* One participant with both buttons: it hosts and stops, and it joins (the
\* retry loop), in any order the guards allow.  No peer connects to it while it
\* hosts: the connections of a hosting session write neither flag, they are
\* followed in QuietNext and HostNext.
RolesNext ==
    \/ create_meeting \/ AcceptEnds
    \/ StopStart \/ StopLoop \/ StopFlags \/ StopClear
    \/ JoinNext

SpecRoles == Init /\ [][RolesNext]_vars

\* ------------------------------------------------ client sessions in a row
\* join_meeting, disconnect_from_meeting and receive_data over several client
\* sessions of one participant that does not host.  The class calls three
\* methods it does not define; above they raise AttributeError, and no session
\* is ever connected.  Here they are supplied as the specification's client
\* state machine describes them ("On a confirmed handshake, the client enters
\* Connected, starts a single receive loop, and notifies the Event Sink"), so
\* that receive_data and disconnect_from_meeting run as written.  Each
\* _connect_to_server call makes a new socket object; the receive thread started
\* for it carries its number.

\* self._receive_data() as the specification describes the handshake wait: the
\* first frame the host sent, an exception when none comes within the timeout
\* or the bytes do not decode.
_receive_data_supplied(case) ==
    [raised |-> case \in {"absent", "garbage"}, data |-> FirstFrame(case)]

\* self._start_receive_thread() as the specification describes it: a thread
\* running receive_data is started; this is where it stands.
_start_receive_thread == "loop"

\* self.handle_received_data(data) as the specification describes it: the frame
\* is routed and the call returns.
handle_received_data_returns == TRUE

\* _connect_to_server with _wait_for_connection_confirm reading through the
\* supplied _receive_data: connected and the first frame is the confirmation.
ClientConfirmed(case) ==
    /\ Connects(case)
    /\ LET r == _receive_data_supplied(case)
       IN  ~r.raised /\ r.data.type = "system" /\ r.data.content = "connection_confirmed"

\* One _connect_to_server call of join_meeting's retry loop (the loop itself is
\* followed in JoinAttempt and JoinSleep): the new socket object is assigned to
\* self.client_socket; on the confirmation _setup_client_connection sets
\* is_connected and starts the receive thread, otherwise the call raises and the
\* socket object stays assigned, unclosed.  cs_gone takes the sockets that have
\* no host end.
ClientConnect ==
    /\ cs_ui = "idle"
    /\ ~cs_is_connected
    /\ cs_socket < MaxClientSockets
    /\ \E case \in AttemptCases :
        LET k == cs_socket + 1
        IN  /\ cs_socket' = k
            /\ cs_open' = cs_open \cup {k}
            /\ cs_gone' = IF Connects(case) THEN cs_gone ELSE cs_gone \cup {k}
            /\ cs_is_connected' = ClientConfirmed(case)
            /\ cs_pc' = IF ClientConfirmed(case)
                        THEN [cs_pc EXCEPT ![k] = _start_receive_thread]
                        ELSE cs_pc
    /\ UNCHANGED <<cs_ui, cs_reads, cs_frames, cs_closed, cs_marked>>
    /\ UNCHANGED <<hostVars, joinVars, moreVars, codecVars, fileVars, recvVars, sesVars>>

\* The join button while connected, disconnect_from_meeting in the UI thread:
\* `if self.client_socket: self.client_socket.close()`
ClientDisconnectClose ==
    /\ cs_ui = "idle"
    /\ cs_is_connected
    /\ cs_open' = cs_open \ {cs_socket}
    /\ cs_ui' = "flag"
    /\ UNCHANGED <<cs_is_connected, cs_socket, cs_gone, cs_pc, cs_reads, cs_frames,
                   cs_closed, cs_marked>>
    /\ UNCHANGED <<hostVars, joinVars, moreVars, codecVars, fileVars, recvVars, sesVars>>

\* disconnect_from_meeting in the UI thread: self.is_connected = False and the
\* widgets.
ClientDisconnectFlag ==
    /\ cs_ui = "flag"
    /\ cs_is_connected' = FALSE
    /\ cs_ui' = "idle"
    /\ UNCHANGED <<cs_socket, cs_open, cs_gone, cs_pc, cs_reads, cs_frames,
                   cs_closed, cs_marked>>
    /\ UNCHANGED <<hostVars, joinVars, moreVars, codecVars, fileVars, recvVars, sesVars>>

\* The host closes its end of a connection.
HostEndCloses(k) ==
    /\ k \in cs_open
    /\ k \notin cs_gone
    /\ cs_gone' = cs_gone \cup {k}
    /\ UNCHANGED <<cs_is_connected, cs_socket, cs_open, cs_ui, cs_pc, cs_reads,
                   cs_frames, cs_closed, cs_marked>>
    /\ UNCHANGED <<hostVars, joinVars, moreVars, codecVars, fileVars, recvVars, sesVars>>

\* receive_data, thread k: `while self.is_connected and not self.is_host:`; when
\* true the thread calls recv on the socket object self.client_socket is now.
ReceiveTop(k) ==
    /\ cs_pc[k] = "loop"
    /\ IF cs_is_connected
       THEN /\ cs_pc' = [cs_pc EXCEPT ![k] = "recv"]
            /\ cs_reads' = [cs_reads EXCEPT ![k] = cs_socket]
       ELSE /\ cs_pc' = [cs_pc EXCEPT ![k] = "finally"]
            /\ cs_reads' = cs_reads
    /\ UNCHANGED <<cs_is_connected, cs_socket, cs_open, cs_gone, cs_ui, cs_frames,
                   cs_closed, cs_marked>>
    /\ UNCHANGED <<hostVars, joinVars, moreVars, codecVars, fileVars, recvVars, sesVars>>

\* receive_data, thread k: a frame of the host is read whole, unpickled and
\* passed to handle_received_data; the loop goes on.
ReceiveFrame(k) ==
    /\ cs_pc[k] = "recv"
    /\ cs_reads[k] \in cs_open \ cs_gone
    /\ cs_frames < MaxClientFrames
    /\ cs_frames' = cs_frames + 1
    /\ cs_pc' = [cs_pc EXCEPT ![k] = IF handle_received_data_returns THEN "loop"
                                     ELSE "finally"]
    /\ UNCHANGED <<cs_is_connected, cs_socket, cs_open, cs_gone, cs_ui, cs_reads,
                   cs_closed, cs_marked>>
    /\ UNCHANGED <<hostVars, joinVars, moreVars, codecVars, fileVars, recvVars, sesVars>>

\* receive_data, thread k: recv raises (the socket object was closed, was never
\* connected, or is one a failed attempt left with its 5 s timeout) or returns
\* b'' (the host closed): the loop is left for the finally clause.
ReceiveBreak(k) ==
    /\ cs_pc[k] = "recv"
    /\ \/ cs_reads[k] \notin cs_open
       \/ cs_reads[k] \in cs_gone
       \/ cs_pc[cs_reads[k]] = "unstarted"
    /\ cs_pc' = [cs_pc EXCEPT ![k] = "finally"]
    /\ UNCHANGED <<cs_is_connected, cs_socket, cs_open, cs_gone, cs_ui, cs_reads,
                   cs_frames, cs_closed, cs_marked>>
    /\ UNCHANGED <<hostVars, joinVars, moreVars, codecVars, fileVars, recvVars, sesVars>>

\* receive_data, thread k: `finally: self.disconnect_from_meeting()`, its
\* `if self.client_socket: self.client_socket.close()` on the socket object
\* the attribute is now.  cs_closed takes the closes of a socket that was open.
ReceiveDisconnectClose(k) ==
    /\ cs_pc[k] = "finally"
    /\ cs_open' = cs_open \ {cs_socket}
    /\ cs_closed' = IF cs_socket \in cs_open THEN cs_closed \cup {<<k, cs_socket>>}
                    ELSE cs_closed
    /\ cs_pc' = [cs_pc EXCEPT ![k] = "flag"]
    /\ UNCHANGED <<cs_is_connected, cs_socket, cs_gone, cs_ui, cs_reads, cs_frames,
                   cs_marked>>
    /\ UNCHANGED <<hostVars, joinVars, moreVars, codecVars, fileVars, recvVars, sesVars>>

\* receive_data, thread k: disconnect_from_meeting's self.is_connected = False;
\* the thread is over.  cs_marked takes the sessions that were connected.
ReceiveDisconnectFlag(k) ==
    /\ cs_pc[k] = "flag"
    /\ cs_is_connected' = FALSE
    /\ cs_marked' = IF cs_is_connected THEN cs_marked \cup {<<k, cs_socket>>}
                    ELSE cs_marked
    /\ cs_pc' = [cs_pc EXCEPT ![k] = "done"]
    /\ UNCHANGED <<cs_socket, cs_open, cs_gone, cs_ui, cs_reads, cs_frames, cs_closed>>
    /\ UNCHANGED <<hostVars, joinVars, moreVars, codecVars, fileVars, recvVars, sesVars>>

ClientNext ==
    \/ ClientConnect \/ ClientDisconnectClose \/ ClientDisconnectFlag
    \/ \E k \in ClientSockets :
        \/ HostEndCloses(k)
        \/ ReceiveTop(k) \/ ReceiveFrame(k) \/ ReceiveBreak(k)
        \/ ReceiveDisconnectClose(k) \/ ReceiveDisconnectFlag(k)

SpecClient == Init /\ [][ClientNext]_vars


\* ------------------------------------------------------------ the participant
Next == HostNext \/ JoinNext \/ CodecNext \/ FileRxNext \/ SessionsNext \/ ClientNext

Spec == Init /\ [][Next]_vars


\* ===================================================================== claims
\* The first two chunks of a byte stream are the length prefix and the payload
\* of the system/connection_confirmed dictionary.
IsHandshake(w) ==
    /\ Len(w) >= 2
    /\ w[1][1] = "size" /\ w[2][1] = "data"
    /\ w[2][2].type = "system" /\ w[2][2].content = "connection_confirmed"
    /\ w[1][2] = serialized_len(w[2][2])

\* The stream is empty, or starts with (at least the prefix of) the handshake.
StartsHandshake(w) ==
    \/ w = <<>>
    \/ Len(w) = 1 /\ w[1][1] = "size"
       /\ w[1][2] = serialized_len([type |-> "system", content |-> "connection_confirmed",
                                    sender |-> ""])
    \/ IsHandshake(w)

\* The connection has been accepted and its handshake was not sent whole.
HsFailed(c) == sock[c] # "unborn" /\ ~IsHandshake(wire[c])

\* C1: whatever is written to an accepted connection starts with the
\* system/connection_confirmed handshake, and a connection that is in the
\* registry (or in a broadcast's copy of it), that the accept thread is about to
\* register, or whose handler has been started, already has the whole handshake
\* on its stream: the handshake is written before registration and handler start.
C1_HandshakeFirst ==
    \A c \in Conns :
        /\ StartsHandshake(wire[c])
        /\ (InList(c, clients) \/ InList(c, bc_snap) \/ h_pc[c] # "idle" \/ acc_conn = c)
            => IsHandshake(wire[c])

\* A registered connection with a running handler received a broadcast chat
\* after its handshake.
C1_Witness ==
    \E c \in Conns :
        /\ InList(c, clients) /\ h_pc[c] = "recv"
        /\ Len(wire[c]) = 4 /\ wire[c][4][2].type = "chat"

\* C2: a connection whose handshake send failed is closed (once), is not in the
\* registry nor in any broadcast's copy of it, and has no handler; the accept
\* thread has not ended on its account (it ends only when hosting has ended).
C2_FailedHandshakeDiscarded ==
    /\ \A c \in Conns :
        HsFailed(c) =>
            /\ sock[c] = "closed" /\ close_calls[c] = 1
            /\ ~InList(c, clients) /\ ~InList(c, bc_snap)
            /\ h_pc[c] = "idle"
            /\ acc_conn # c
    /\ acc_pc = "done" => ~is_host

\* After a failed handshake the accept loop accepted and registered a later
\* connection, whose handler runs.
C2_Witness ==
    \E c, d \in Conns :
        /\ c < d
        /\ HsFailed(c) /\ Len(wire[c]) = 1
        /\ InList(d, clients) /\ h_pc[d] = "recv" /\ is_host

\* C3: the step in which the handler of connection a takes a chat frame sends
\* the chat to every other registered connection, not to a, and adds one chat
\* event to the host's display.
C3_ChatRelayedOnce ==
    [][\A a \in Conns :
        (h_pc[a] = "recv" /\ h_pc'[a] = "top" /\ inbox[a] # <<>> /\ Head(inbox[a]) = "chat")
            => /\ chat_display'.peer = chat_display.peer + 1
               /\ wire'[a] = wire[a]
               /\ \A b \in Conns \ {a} :
                    (InList(b, clients) /\ sock[b] = "open")
                        => /\ Len(wire'[b]) = Len(wire[b]) + 2
                           /\ wire'[b][Len(wire'[b])][2].type = "chat"]_vars

\* C4: a chat submitted by a participant that is not hosting, after a join
\* attempt in which the host's confirmation arrived, is added to its own display
\* once by that submission.
C4_OwnChatShownOnce ==
    [][(client_chats' = client_chats + 1 /\ \E i \in 1..Len(attempts) : attempts[i] = "confirmed")
            => chat_display'.me = chat_display.me + 1]_vars

\* C5: when broadcast_data's loop is over, every connection of the copy other
\* than exclude_socket has been sent to (both sends succeeded, or one raised),
\* each connection a send raised on is out of the registry, no other connection
\* was removed by the broadcast, and exclude_socket was not sent to.
C5_BroadcastReachesAll ==
    ui_pc \in {"bc_show", "bc_except"} =>
        /\ \A i \in 1..Len(bc_snap) :
            bc_snap[i] # exclude_socket => bc_snap[i] \in bc_sent \cup bc_failed
        /\ \A c \in bc_failed : ~InList(c, clients)
        /\ bc_removed \subseteq bc_failed
        /\ exclude_socket \notin bc_sent \cup bc_failed

\* C6: a broadcast never calls send on a connection whose socket has been
\* closed since the copy was taken, and its loop is never cut short.
C6_SnapshotShieldsBroadcast ==
    /\ bc_stale = {}
    /\ ui_pc # "bc_except"

\* C7: no removal of a connection from the registry raises: neither the
\* handler's cleanup nor the broadcast's send-failure path meets ValueError.
C7_RemoveNeverRaises ==
    /\ \A c \in Conns : h_pc[c] # "died"
    /\ ui_pc # "bc_except"

\* C8: a join_meeting call makes at most retry_count attempts, sleeps once
\* between consecutive attempts and not after the last, and when all have failed
\* it has made exactly retry_count attempts and retry_count - 1 sleeps, has
\* emitted connection_error exactly once, is not connected, and attempts nothing
\* more; before that it has emitted no error.
C8_RetryThenFail ==
    /\ Len(attempts) <= retry_count
    /\ j_pc = "try" => sleeps = Len(attempts) /\ Len(attempts) < retry_count
    /\ j_pc = "sleep" => sleeps = Len(attempts) - 1 /\ Len(attempts) < retry_count
    /\ j_pc = "failed" =>
        /\ Len(attempts) = retry_count
        /\ sleeps = retry_count - 1
        /\ errors_emitted = 1
        /\ ~is_connected
    /\ errors_emitted = (IF j_pc = "failed" THEN 1 ELSE 0)
    /\ (joins > 0 /\ \A i \in 1..Len(attempts) : attempts[i] = "refused")
            => j_pc \in {"try", "sleep", "failed"}

\* Three refused attempts, two sleeps, one error.
C8_Witness ==
    /\ j_pc = "failed"
    /\ attempts = <<"refused", "refused", "refused">>
    /\ sleeps = 2 /\ errors_emitted = 1

\* C9: an attempt whose transport connected and whose first frame was the
\* confirmation leaves the client connected with its receive thread started,
\* and is the last attempt of the call.
C9_ConfirmedConnects ==
    \A i \in 1..Len(attempts) :
        attempts[i] = "confirmed" =>
            /\ is_connected /\ rx_started
            /\ i = Len(attempts) /\ j_pc = "idle"

\* C10: an attempt whose transport connected and whose first frame was absent,
\* undecodable or not the confirmation leaves the client not connected with no
\* receive thread, and took one value of the retry loop: it is followed by the
\* sleep before the next attempt or, being the last, by the failure report.
C10_BadHandshakeFails ==
    (attempts # <<>> /\ attempts[Len(attempts)] \in {"absent", "garbage", "other"}) =>
        /\ ~is_connected /\ ~rx_started
        /\ j_pc \in {"sleep", "try", "failed"}
        /\ attempt = (IF j_pc = "try" THEN Len(attempts) ELSE Len(attempts) - 1)
        /\ j_pc = "failed" <=> Len(attempts) = retry_count

\* The second attempt met a frame that is not the confirmation; the loop is
\* about to sleep before the third.
C10_Witness ==
    /\ j_pc = "sleep"
    /\ attempts = <<"refused", "other">>
    /\ attempt = 1 /\ ~is_connected

\* The host's confirmation arrived in an attempt of the running or last
\* join_meeting call: the session the specification calls Connected.
SessionConfirmed == \E i \in 1..Len(attempts) : attempts[i] = "confirmed"

\* C11: the join button pressed on a session whose handshake was confirmed is
\* the user's disconnect: that step closes the client socket, leaves the client
\* not connected and adds exactly one disconnect notice to the display.
C11_DisconnectNotifiedOnce ==
    [][(joins' = joins + 1 /\ SessionConfirmed)
            => /\ chat_display'.system = chat_display.system + 1
               /\ client_socket' = "closed"
               /\ ~is_connected']_vars

\* C12: once the host has closed the connection of a client whose handshake
\* was confirmed, the client eventually is disconnected: not connected, its
\* socket closed.
C12_PeerCloseDisconnects ==
    (SessionConfirmed /\ attempts[Len(attempts)] = "confirmed" /\ server_gone)
        ~> (~is_connected /\ client_socket = "closed")

\* The handler of c ends in this step, having left its loop on a zero-length
\* read of the length prefix.
EndsAfterEof(c) ==
    /\ h_pc'[c] \in {"done", "died"}
    /\ \/ h_pc[c] = "remove" /\ h_exit[c] = "eof"
       \/ h_pc[c] = "recv" /\ sock[c] = "open" /\ inbox[c] = <<>>

\* C13: when a handler that saw its peer's close (a zero-length read of the
\* length prefix) ends, its connection is out of the registry and closed.
C13_PeerCloseEndsHandler ==
    [][\A c \in Conns :
        EndsAfterEof(c) => (~InList(c, clients') /\ sock'[c] = "closed")]_vars

\* C14: close() is called on no connection more than once, and exactly once on
\* a connection whose handler has ended.
C14_ClosedExactlyOnce ==
    \A c \in Conns :
        /\ close_calls[c] <= 1
        /\ h_pc[c] \in {"done", "died"} => close_calls[c] = 1

\* stop_server has run to its end.
StopCompleted == server_socket = "closed" /\ ui_pc = "idle"

\* The handler of c is not waiting for its peer: it is at the loop test or in
\* its finally clause, and closes c by itself.
WindingUp(c) == h_pc[c] \in {"top", "remove"}

\* C15: once stop_server has completed, the listening socket is closed and the
\* host flags are off; the registry is empty and every connection that was ever
\* registered (its handler was started) is closed, allowance made for handlers
\* that are winding up at that moment.
C15_StopClosesAll ==
    StopCompleted =>
        /\ ~is_host /\ ~is_connected
        /\ \A c \in Conns : InList(c, clients) => WindingUp(c)
        /\ \A c \in Conns : h_pc[c] # "idle" => (sock[c] = "closed" \/ WindingUp(c))

\* C16: after a create_meeting call in which bind or listen raised, the failure
\* has been reported once, bind was called once, the participant is neither
\* host nor connected, the registry is as it was (empty), and no accept thread
\* and no handler has been started.
C16_BindFailureAborts ==
    server_socket = "unbound" =>
        /\ create_warnings = 1 /\ bind_calls = 1
        /\ ~is_host /\ ~is_connected
        /\ clients = <<>>
        /\ acc_pc = "unstarted"
        /\ \A c \in Conns : h_pc[c] = "idle" /\ sock[c] = "unborn"

\* A create_meeting call has failed at bind.
C16_Witness ==
    /\ server_socket = "unbound" /\ create_warnings = 1
    /\ ~is_host /\ acc_pc = "unstarted"

\* C18: a frame cut short by the peer's close is never passed to pickle.loads.
C18_TruncatedNeverDecoded == \A f \in unpickled : ~Truncated(f)

\* The byte stream is a concatenation of whole frames: a length prefix, then a
\* payload of exactly that length.
RECURSIVE Framed(_)
Framed(w) ==
    IF w = <<>> THEN TRUE
    ELSE /\ Len(w) >= 2
         /\ w[1][1] = "size" /\ w[2][1] = "data"
         /\ w[1][2] = serialized_len(w[2][2])
         /\ Framed(SubSeq(w, 3, Len(w)))

\* Whole frames followed by one length prefix without its payload.
FramedThenPrefix(w) ==
    /\ w # <<>>
    /\ w[Len(w)][1] = "size"
    /\ Framed(SubSeq(w, 1, Len(w) - 1))

\* The connection is closed, or the broadcast whose send on it raised is in the
\* except clause that takes it out of the registry.
Discarded(c) ==
    \/ sock[c] = "closed"
    \/ /\ ui_pc \in {"bc_check", "bc_remove"}
       /\ bc_snap[bc_i] = c /\ c \in bc_failed

C19_RoundTrip ==
    /\ rx_pc # "raised"
    /\ Len(rx_out) <= Len(tx_sent)
    /\ \A i \in 1..Len(rx_out) : rx_out[i] = tx_sent[i]

\* What the transfer of a file of the given size is to hand to the connection:
\* the file's chunks in file order, each of chunk_size bytes but the last.
RECURSIVE ChunksOf(_)
ChunksOf(size) ==
    IF size = 0 THEN <<>>
    ELSE <<file_data_msg(Min(chunk_size, size))>> \o ChunksOf(size - Min(chunk_size, size))

\* C20: the transfer of a readable file, once its task has ended, has emitted
\* for its id one file_info, then file_data chunks of at most 8192 bytes whose
\* lengths sum to the advertised size, then one file_end, and nothing else.
C20_TransferSequence ==
    \A t \in Transfers :
        t_pc[t] = "done" =>
            emitted[t] = <<file_info_msg(file_size[t])>> \o ChunksOf(file_size[t])
                         \o <<file_end_msg>>

\* C21: a file send that met an error is aborted.  The error is reported once,
\* as the task leaves its except clause for the finally clause; from the error
\* on nothing more is emitted for the transfer id, and once reported the task
\* only ends: it is not taken up again and not reported again.
C21_FailedSendAborts ==
    [][\A t \in Transfers :
        /\ t_pc[t] = "except" =>
              /\ emitted'[t] = emitted[t]
              /\ \/ t_pc'[t] = "except" /\ transfer_log'[t] = transfer_log[t]
                 \/ t_pc'[t] = "finally" /\ transfer_log'[t] = transfer_log[t] + 1
        /\ transfer_log[t] >= 1 =>
              /\ emitted'[t] = emitted[t]
              /\ transfer_log'[t] = transfer_log[t]
              /\ t_pc'[t] \in {"finally", "done"}]_vars

\* A send failed, was reported once, and its task has ended.
C21_Witness ==
    \E t \in Transfers :
        t_pc[t] = "done" /\ transfer_log[t] = 1 /\ t \notin DOMAIN pending_files

\* How often 100 stands in a sequence of progress values.
Hundreds(values) == Cardinality({i \in 1..Len(values) : values[i] = 100})

\* C22: the progress values reported for a transfer stay within 0..100 and
\* never decrease, and the transfer of a readable file, once its task has
\* ended, has reported 100 exactly once.
C22_ProgressReachesHundredOnce ==
    \A t \in Transfers :
        /\ \A i \in 1..Len(progress[t]) : progress[t][i] \in 0..100
        /\ \A i \in 2..Len(progress[t]) : progress[t][i - 1] <= progress[t][i]
        /\ t_pc[t] = "done" => Hundreds(progress[t]) = 1

\* The receive session of the peer's transfer, as file_info is to make it.
HasReceiveSession ==
    /\ Remote \in DOMAIN pending_files
    /\ "buffer" \in DOMAIN pending_files[Remote]
    /\ "info" \in DOMAIN pending_files[Remote]

\* C23: once the peer's file_info has been handled there is a receive session
\* for its id with an empty buffer and the advertised size and digest; once the
\* chunk has been handled too the buffer holds it; and once the file_end of an
\* unaltered transfer has been handled the transfer was verified (the save was
\* offered).
C23_ReceiveSessionAssembles ==
    /\ remote_pc = "file_data" =>
          /\ HasReceiveSession
          /\ pending_files[Remote].buffer = Bytes(0, TRUE)
          /\ pending_files[Remote].info = _prepare_file_info(remote_file.length)
    /\ remote_pc = "file_end" =>
          /\ HasReceiveSession
          /\ pending_files[Remote].buffer = Bytes(remote_file.length, ~remote_corrupt)
    /\ (remote_pc = "done" /\ ~remote_corrupt) => saves = 1

\* C24: when the file_end of a transfer with an altered chunk is handled, an
\* integrity failure is reported, no save is offered, and the transfer has not
\* reported 100.
C24_CorruptionSurfaces ==
    [][(remote_pc = "file_end" /\ remote_pc' = "done" /\ remote_corrupt) =>
          /\ file_failures' = file_failures + 1
          /\ saves' = saves
          /\ Hundreds(progress'[Remote]) = 0]_vars

\* C25: a session is in the in-flight set only while its transfer is in flight.
\* A send task that has ended has left no entry, and when a file_end has been
\* handled there is no entry for its transfer id any more, whatever the digest
\* check gave.
C25_SessionOnlyInFlight ==
    [][/\ \A t \in Transfers : t_pc'[t] = "done" => t \notin DOMAIN pending_files'
       /\ (rx_count' = rx_count + 1 /\ rx_last'.type = "file_end") =>
              rx_last'.transfer_id \notin DOMAIN pending_files']_vars

\* C26: a file_data or file_end message whose transfer id has no entry is
\* ignored: handling it leaves the in-flight set with every buffer in it and
\* the reported progress as they were, logs no failure and offers no save.
C26_UnknownIdIgnored ==
    [][(/\ rx_count' = rx_count + 1
        /\ rx_last'.type \in {"file_data", "file_end"}
        /\ rx_last'.transfer_id \notin DOMAIN pending_files) =>
          /\ pending_files' = pending_files
          /\ progress' = progress
          /\ file_failures' = file_failures
          /\ saves' = saves]_vars

\* A file_end for an id without an entry has been handled while another
\* transfer had its entry, and no failure was logged.
C26_Witness ==
    /\ rx_count >= 1
    /\ rx_last.type = "file_end"
    /\ rx_last.transfer_id \notin DOMAIN pending_files
    /\ DOMAIN pending_files # {}
    /\ file_failures = 0

\* The step is one of transfer t: its send task starts or moves, or a message
\* with its id is handled.
StepOf(t) ==
    \/ t \in Transfers /\ t_pc'[t] # t_pc[t]
    \/ rx_count' = rx_count + 1 /\ rx_last'.transfer_id = t

\* The step leaves everything of transfer u as it was.
Untouched(u) ==
    /\ (u \in DOMAIN pending_files) = (u \in DOMAIN pending_files')
    /\ u \in DOMAIN pending_files => pending_files'[u] = pending_files[u]
    /\ progress'[u] = progress[u]
    /\ u \in Transfers =>
          /\ t_pc'[u] = t_pc[u]
          /\ emitted'[u] = emitted[u]
          /\ transfer_log'[u] = transfer_log[u]

\* C27: transfers are independent.  A transfer is started under an id that has
\* no entry, and a step of one transfer (its start, a step of its send task up
\* to the removal of its entry, a message with its id) leaves the entry, the
\* progress and the send task of every other transfer as they were.
C27_TransfersIndependent ==
    [][\A t \in FileIds :
          /\ (t \in Transfers /\ t_pc[t] = "unstarted" /\ t_pc'[t] # "unstarted") =>
                t \notin DOMAIN pending_files
          /\ StepOf(t) => \A u \in FileIds \ {t} : Untouched(u)]_vars

\* One transfer's send task has ended and a message with its id was handled,
\* while another transfer still has its entry.
C27_Witness ==
    \E t \in Transfers, u \in Transfers :
        /\ t # u
        /\ t_pc[t] = "done"
        /\ rx_count >= 1 /\ rx_last.transfer_id = t
        /\ u \in DOMAIN pending_files

\* The step is one of the handler of connection c.
HandlerStep(c) == h_pc[c] \in {"top", "recv", "remove"} /\ h_pc'[c] # h_pc[c]

\* C28: what the handler of one connection does, up to its end on a peer
\* close, a receive error or a frame that does not decode, touches only that
\* connection: is_host, the listening socket and the accept loop stay as they
\* are, every other connection stays registered if it was, with its socket and
\* its handler as they were.
C28_HandlerFailureIsolated ==
    [][\A c \in Conns :
          HandlerStep(c) =>
              /\ is_host' = is_host
              /\ server_socket' = server_socket
              /\ acc_pc' = acc_pc
              /\ \A d \in Conns \ {c} :
                    /\ InList(d, clients) => InList(d, clients')
                    /\ sock'[d] = sock[d]
                    /\ h_pc'[d] = h_pc[d]]_vars

\* The handler of one connection has ended and closed its socket, the session
\* is still hosting with the accept loop running, and another connection is
\* registered with its handler in its loop.
C28_Witness ==
    \E c \in Conns, d \in Conns :
        /\ c # d
        /\ h_pc[c] = "done" /\ sock[c] = "closed" /\ ~InList(c, clients)
        /\ is_host /\ server_socket = "listening" /\ acc_pc = "loop"
        /\ InList(d, clients) /\ sock[d] = "open" /\ h_pc[d] \in {"top", "recv"}

\* No thread of the host is left: the accept thread and every handler thread
\* have ended or were never started.
HostThreadsOver ==
    /\ acc_pc \in {"unstarted", "done"}
    /\ \A c \in Conns : h_pc[c] \in {"idle", "done", "died"}

\* C29: once stop_server has run, the accept loop and every handler thread end.
C29_StopEndsThreads == StopCompleted ~> HostThreadsOver

\* C30: at most one accept loop runs at any time, and the accept thread of one
\* session takes connections only from that session's listening socket and
\* appends only to that session's list.
C30_OneAcceptLoop ==
    /\ Cardinality({k \in Sessions : ses_pc[k] \in {"loop", "append"}}) <= 1
    /\ \A p \in ses_accepts \cup ses_appends : p[1] = p[2]

\* The connection's stream begins with the two chunks of the handshake.
HandshakeSent(c) ==
    /\ Len(wire[c]) >= 2
    /\ wire[c][1] = size_chunk(welcome_data)
    /\ wire[c][2] = data_chunk(welcome_data)

\* The handle_client thread of the connection has been started and is not over.
HandlerAlive(c) == h_pc[c] \in {"top", "recv", "remove"}

\* C31: every connection in self.clients has been sent the whole handshake and
\* has its one handler thread, started and not over; no connection is in the
\* list twice, and no connection whose handler is over is in the list.
C31_RegistryConsistent ==
    \A i \in 1..Len(clients) :
        /\ HandshakeSent(clients[i])
        /\ HandlerAlive(clients[i])
        /\ h_pc[clients[i]] \notin {"done", "died"}
        /\ \A j \in 1..Len(clients) : clients[j] = clients[i] => j = i

\* One connection's handler has ended and the connection has left the list
\* while another is registered with its handler waiting for a frame.
C31_Witness ==
    \E c, d \in Conns :
        /\ InList(c, clients) /\ h_pc[c] = "recv"
        /\ h_pc[d] = "done" /\ ~InList(d, clients)
        /\ is_host

\* The receive_data thread started with socket object k goes on reading unless
\* something else happens: it is at the loop test with is_connected set, or in
\* recv on an open connection of a confirmed session.
ReceiveActive(k) ==
    \/ cs_pc[k] = "loop" /\ cs_is_connected
    \/ /\ cs_pc[k] = "recv"
       /\ cs_reads[k] \in cs_open \ cs_gone
       /\ cs_pc[cs_reads[k]] # "unstarted"

\* C32: at most one client receive loop is active at a time, and the disconnect
\* a receive loop performs when it ends closes no socket but the one the loop
\* was started for and clears is_connected of no session but its own.
C32_ReceiveLoopOwnsSession ==
    /\ Cardinality({k \in ClientSockets : ReceiveActive(k)}) <= 1
    /\ \A p \in cs_closed \cup cs_marked : p[1] = p[2]

\* send_chat_message of the host returns in this step.
HostChatReturns == ui_pc \in {"bc_show", "bc_except"} /\ ui_pc' = "idle"

\* C33: when the host's send_chat_message returns, a send was made on every
\* connection that was registered when the broadcast began, and the host's own
\* chat display has gained the message exactly once.
C33_HostChatSentAndShownOnce ==
    [][HostChatReturns =>
        /\ \A i \in 1..Len(bc_snap) : bc_snap[i] \in bc_sent \cup bc_failed
        /\ chat_display'.me = chat_display.me + 1]_vars

\* The participant is in the client role: joined, or inside a join_meeting call.
Joining == j_pc \in {"try", "sleep"} \/ (is_connected /\ ~is_host)

\* C34: a participant holds at most one role.  is_host implies is_connected; a
\* hosting participant has no client receive loop and is in no join_meeting
\* call; no step while hosting starts a join or touches the client socket, and
\* no step of a participant that has joined makes it host.
C34_OneRole ==
    /\ [](is_host => is_connected /\ ~rx_started /\ ~Joining)
    /\ [][/\ is_host => joins' = joins /\ client_socket' = client_socket
          /\ Joining => ~is_host']_vars

\* The participant hosts after a join_meeting call that failed and left its
\* socket object behind, with join_meeting calls still to come.
C34_Witness ==
    /\ is_host /\ is_connected
    /\ joins > 0 /\ joins < MaxJoins /\ j_pc = "failed" /\ client_socket # "none"

====
